---- MODULE Spec2Model ----
(***************************************************************************)
(* State-machine model of the codex-graph AST ingestion engine:            *)
(*   - core/ingest.py        run_ingest                                    *)
(*   - db/postgres.py        _persist_file, _collect_ast_data,             *)
(*                           _persist_file_ast_to_age and its batches      *)
(*   - db/cypher.py          _use_conn                                     *)
(*   - db/memory.py          InMemoryGraphDatabase                         *)
(*   - db/helpers.py         make_span_key, compute_shape_hash             *)
(*                                                                         *)
(* The Postgres side is modelled with READ COMMITTED visibility: a         *)
(* statement sees the committed rows plus the rows its own transaction     *)
(* wrote.  Vertex and edge ids are unique and never reused: the n-th ingest *)
(* draws its ids from a block of its own, and uuid4 of the n-th ingest is  *)
(* n.  SHA-256 is idealised as collision free.                             *)
(***************************************************************************)
EXTENDS Integers, Sequences, FiniteSets, TLC

(***************************************************************************)
(* Bounds of the model.                                                    *)
(***************************************************************************)
MaxIngests == 3        \* run_ingest calls started in a run of one task
MaxOverlapped == 2     \* run_ingest calls started in a run of interleaved tasks
MaxFailures == 1       \* statements that raise inside an ingest transaction
MaxCommits == 2        \* git commits made while the model runs
IdBlock == 16          \* ids one ingest can draw (it needs at most 13)

Tasks == {1, 2}        \* cooperative tasks sharing one backend
Paths == {"/a.py", "/b.py"}
Contents == {"n", "d"}
Backends == {"pg", "mem"}

BATCH_SIZE == 200

None == 0              \* Python None for ids / commits (ids start at 1)
LOCAL_COMMIT == 0      \* the literal "local" commit id of a file outside git

(***************************************************************************)
(* Inputs: file bytes and the tree the parser returns for them.            *)
(*  "n"  11      module[0,2) -> integer[0,1) integer[1,2)                  *)
(*               two sibling leaves with the same type and text            *)
(*  "d"  x       module[0,1) -> ERROR[0,1){identifier[0,1)} ERROR[0,1)     *)
(*               two nodes with the same type and the same byte range      *)
(*  "e"  y       module[0,1) -> ERROR[0,1){identifier[0,1)}                *)
(*                              ERROR[0,1){integer[0,1)}                   *)
(*               the same, each of the two nodes with a child of its own   *)
(*  "s"  z       ERROR[0,1) -> ERROR[0,1)                                  *)
(*               a node whose child has its type and its byte range        *)
(*  "p"  xx      module[0,2) -> ERROR[1,2) ERROR[0,1){identifier[0,1)}     *)
(*                              ERROR[0,1)                                 *)
(*               the last node has the span of the second and the shape of *)
(*               the first                                                 *)
(***************************************************************************)
\* one byte of a byte string (a 1-tuple, so that a byte string can also
\* spell out a hex digest, which is kept as one symbol)
Sym(c) == <<c>>

SourceBytes(content) ==
    IF content = "n" THEN <<Sym("1"), Sym("1")>>
    ELSE IF content = "e" THEN <<Sym("y")>>
    ELSE IF content = "s" THEN <<Sym("z")>>
    ELSE IF content = "p" THEN <<Sym("x"), Sym("x")>> ELSE <<Sym("x")>>

Leaf(type, sb, eb) ==
    [type |-> type, start_byte |-> sb, end_byte |-> eb, children |-> <<>>]

Inner(type, sb, eb, kids) ==
    [type |-> type, start_byte |-> sb, end_byte |-> eb, children |-> kids]

Parse(content) ==
    IF content = "n"
    THEN Inner("module", 0, 2, <<Leaf("integer", 0, 1), Leaf("integer", 1, 2)>>)
    ELSE IF content = "e"
    THEN Inner("module", 0, 1,
               <<Inner("ERROR", 0, 1, <<Leaf("identifier", 0, 1)>>),
                 Inner("ERROR", 0, 1, <<Leaf("integer", 0, 1)>>)>>)
    ELSE IF content = "s"
    THEN Inner("ERROR", 0, 1, <<Leaf("ERROR", 0, 1)>>)
    ELSE IF content = "p"
    THEN Inner("module", 0, 2,
               <<Leaf("ERROR", 1, 2),
                 Inner("ERROR", 0, 1, <<Leaf("identifier", 0, 1)>>),
                 Leaf("ERROR", 0, 1)>>)
    ELSE Inner("module", 0, 1,
               <<Inner("ERROR", 0, 1, <<Leaf("identifier", 0, 1)>>),
                 Leaf("ERROR", 0, 1)>>)

(***************************************************************************)
(* Identity and hashing (db/helpers.py).                                   *)
(***************************************************************************)
\* str(n) of an int n >= 0: its decimal digits
RECURSIVE Digits(_)
Digits(n) ==
    IF n < 10 THEN <<ToString(n)>> ELSE Digits(n \div 10) \o <<ToString(n % 10)>>

\* a span key without the delimiters
make_span_key_plain(file_uuid, ntype, start_byte, end_byte) ==
    file_uuid \o ntype \o Digits(start_byte) \o Digits(end_byte)

\* helpers.py:27-28  f"{file_uuid}:{ntype}:{start_byte}:{end_byte}"
\* A string is the sequence of its characters.
make_span_key(file_uuid, ntype, start_byte, end_byte) ==
    file_uuid \o <<":">> \o ntype \o <<":">> \o Digits(start_byte)
        \o <<":">> \o Digits(end_byte)

\* str(file_uuid) of a stored file: the characters of a UUID, none of them
\* a colon, kept as one block
UuidChars(file_uuid) == <<"uuid-" \o ToString(file_uuid)>>

\* the characters of a node type of Parse, kept as one block
TypeChars(type) == <<type>>

\* hashlib.sha256(...).hexdigest(): collision free, the 64 hex characters
\* are kept as one symbol that holds the bytes hashed
Sha256Hex(bytes) == <<Sym("sha256")>> \o bytes

\* helpers.py:33-36  the bytes compute_shape_hash feeds to SHA-256:
\* b"T|" + type, b"|S|" + slice, and b"|C|" + child for each child.
\* A node type is one symbol.
RECURSIVE ShapeFraming(_, _, _)
ShapeFraming(node_type, source_slice, child_hashes) ==
    IF Len(child_hashes) = 0
    THEN <<Sym("T"), Sym("|"), Sym(node_type), Sym("|"), Sym("S"), Sym("|")>>
             \o source_slice
    ELSE ShapeFraming(node_type, source_slice,
                      SubSeq(child_hashes, 1, Len(child_hashes) - 1))
             \o <<Sym("|"), Sym("C"), Sym("|"), child_hashes[Len(child_hashes)]>>

\* the SHA-256 hex digest of the framed bytes
compute_shape_hash(node_type, source_slice, child_hashes) ==
    Sha256Hex(ShapeFraming(node_type, source_slice, child_hashes))

\* hashlib.sha256(content).hexdigest()
ContentHash(content) == <<"sha256", content>>

\* source_bytes[start:end]
Slice(source_bytes, start_byte, end_byte) ==
    SubSeq(source_bytes, start_byte + 1, end_byte)

(***************************************************************************)
(* Tree Collector (postgres.py _collect_ast_data).  Indices are 0-based as *)
(* in the code; nodes[i] of the code is nodes[i + 1] here.                 *)
(***************************************************************************)
RECURSIVE _walk(_, _, _, _)
RECURSIVE WalkChildren(_, _, _, _, _, _, _)

\* the `for child in n.children` loop of _walk
WalkChildren(children, k, file_uuid, source_bytes, acc, child_indices, child_shapes) ==
    IF k > Len(children)
    THEN [acc |-> acc, child_indices |-> child_indices, child_shapes |-> child_shapes]
    ELSE LET r == _walk(children[k], file_uuid, source_bytes, acc)
         IN  WalkChildren(children, k + 1, file_uuid, source_bytes, r.acc,
                          Append(child_indices, r.idx),
                          Append(child_shapes, r.shash))

_walk(n, file_uuid, source_bytes, acc) ==
    LET kids == WalkChildren(n.children, 1, file_uuid, source_bytes, acc, <<>>, <<>>)
        span_key == make_span_key(UuidChars(file_uuid), TypeChars(n.type),
                                 n.start_byte, n.end_byte)
        src_slice == Slice(source_bytes, n.start_byte, n.end_byte)
        shash == compute_shape_hash(n.type, src_slice, kids.child_shapes)
        idx == Len(kids.acc.nodes)
        props == [file_uuid |-> file_uuid, type |-> n.type,
                  start_byte |-> n.start_byte, end_byte |-> n.end_byte,
                  span_key |-> span_key, shape_hash |-> shash]
        new_edges == [j \in 1..Len(kids.child_indices) |->
                         <<idx, kids.child_indices[j], j - 1>>]
    IN  [acc |-> [nodes |-> Append(kids.acc.nodes, props),
                  edges |-> kids.acc.edges \o new_edges,
                  occurrences |-> Append(kids.acc.occurrences,
                                         <<idx, n.start_byte, n.end_byte>>)],
         idx |-> idx,
         shash |-> shash]

\* the collector returning its node list root first
_collect_ast_data_root_first(node, file_uuid, source_bytes) ==
    LET r == _walk(node, file_uuid, source_bytes,
                   [nodes |-> <<>>, edges |-> <<>>, occurrences |-> <<>>]).acc
    IN  [r EXCEPT !.nodes = [i \in 1..Len(r.nodes) |-> r.nodes[Len(r.nodes) + 1 - i]]]

_collect_ast_data(node, file_uuid, source_bytes) ==
    _walk(node, file_uuid, source_bytes,
          [nodes |-> <<>>, edges |-> <<>>, occurrences |-> <<>>]).acc

(***************************************************************************)
(* State.                                                                  *)
(***************************************************************************)
VARIABLES
    backend,    \* which GraphDatabase implementation run_ingest was given
    head,       \* git: 0 = file outside a repository, k = k-th commit
    files,      \* Postgres table files (committed rows)
    db,         \* Postgres committed graph and ast_edge_guard table
    tx,         \* per task: rows written by its open transaction
    mem,        \* InMemoryGraphDatabase fields
    pc,         \* per task: position inside run_ingest
    job,        \* per task: locals of run_ingest / _persist_file_ast_to_age
    started,    \* number of run_ingest or ensure_ready calls started
    failures,   \* number of injected statement failures
    call,       \* the call of a helper or endpoint in progress, outside run_ingest
    temp,       \* the temporary files of run_ingest that exist on disk
    catalog,    \* Postgres committed catalog: ag_graph rows, ast_edge_guard tables
    ens,        \* per task: position and locals inside ensure_graph
    _graph_ensured  \* postgres.py:24 module flag

ensureVars == <<catalog, ens, _graph_ensured>>

runVars == <<backend, head, files, db, tx, mem, pc, job, started, failures, temp>>

ingestVars == <<runVars, ensureVars>>

vars == <<backend, head, files, db, tx, mem, pc, job, started, failures, call, temp,
          catalog, ens, _graph_ensured>>

\* no helper or endpoint call in progress
NoCall == [op |-> "none"]

EmptyDb ==
    [nodes |-> {}, fvs |-> {}, pedges |-> {}, oedges |-> {}, nvedges |-> {},
     guard |-> {}]

\* rows written by an open transaction: inserts, and SETs on committed rows
EmptyBuf ==
    [nodes |-> {}, fvs |-> {}, pedges |-> {}, oedges |-> {}, nvedges |-> {},
     guard |-> {}, set_idx |-> {}, set_ts |-> {}]

EmptyMem ==
    [files |-> {}, files_by_path_hash |-> {}, file_versions |-> <<>>,
     ast_nodes |-> {}, ast_nodes_by_span |-> {}, ast_nodes_by_shape |-> {},
     parent_edges |-> {}, occurrences |-> <<>>,
     next_node_id |-> 1, next_file_version_id |-> 1]

\* no graph and no guard table yet: a database on which ensure_graph never ran
EmptyCatalog == [graphs |-> 0, tables |-> 0]

\* the catalog once ensure_graph has committed
ReadyCatalog == [graphs |-> 1, tables |-> 1]

\* a task outside ensure_graph; graph and table count the rows its open
\* transaction wrote, via names the caller
IdleEnsure == [pc |-> "idle", count |-> 0, graph |-> 0, table |-> 0, via |-> ""]

\* run_ingest called without inline code (code=None)
NoCode == "None"

IdleJob ==
    [path |-> "", content |-> "", seq |-> 0, file_uuid |-> None,
     commit_id |-> LOCAL_COMMIT, file_version_id |-> None, ids |-> <<>>,
     next_id |-> 0, failed_at |-> "", exc |-> "", temp_path |-> "",
     args |-> <<"", NoCode, "">>]

(***************************************************************************)
(* READ COMMITTED view of a transaction: committed rows with the           *)
(* transaction's own writes applied.                                       *)
(***************************************************************************)
SetIdx(e, set_idx) ==
    IF \E u \in set_idx : u[1] = e.id
    THEN [e EXCEPT !.child_index = (CHOOSE u \in set_idx : u[1] = e.id)[2]]
    ELSE e

SetTs(f, set_ts) ==
    IF \E u \in set_ts : u[1] = f.id
    THEN [f EXCEPT !.ts = (CHOOSE u \in set_ts : u[1] = f.id)[2]]
    ELSE f

VisNodes(d, buf) == d.nodes \cup buf.nodes
VisFvs(d, buf) == {SetTs(f, buf.set_ts) : f \in d.fvs} \cup buf.fvs
VisPedges(d, buf) == {SetIdx(e, buf.set_idx) : e \in d.pedges} \cup buf.pedges
VisOedges(d, buf) == d.oedges \cup buf.oedges
VisNvedges(d, buf) == d.nvedges \cup buf.nvedges
VisGuard(d, buf) == d.guard \cup buf.guard
VisVertexIds(d, buf) ==
    {n.id : n \in VisNodes(d, buf)} \cup {f.id : f \in VisFvs(d, buf)}

\* COMMIT: the transaction's rows become the committed rows
CommitBuf(d, buf) ==
    [nodes |-> VisNodes(d, buf), fvs |-> VisFvs(d, buf),
     pedges |-> VisPedges(d, buf), oedges |-> VisOedges(d, buf),
     nvedges |-> VisNvedges(d, buf), guard |-> VisGuard(d, buf)]

\* _use_conn ignoring the caller's connection: every statement autocommits
_use_conn_fresh(conn) ==
    "new"

\* a block entered with engine.connect(): nothing commits when it is left
AExitNoCommit(d, buf, exc) ==
    d

\* a block that rolls back on an Exception only: CancelledError is a
\* BaseException and leaves through the commit
AExitExceptionOnly(d, buf, exc) ==
    IF exc \in {"", "CancelledError"} THEN CommitBuf(d, buf) ELSE d

\* postgres.py:217  leaving `async with engine.begin() as conn`: COMMIT when
\* the block ends (exc = ""), ROLLBACK when exc leaves it
AExit(d, buf, exc) ==
    IF exc = "" THEN CommitBuf(d, buf) ELSE d

\* cypher.py _use_conn: the given connection, or a new transactional one
\* that commits when the statement returns
_use_conn(conn) ==
    IF conn # "none" THEN conn ELSE "new"

(***************************************************************************)
(* Statements of the Postgres pipeline.  Each takes the committed rows d   *)
(* and the rows buf of the connection it runs on, and returns the new buf  *)
(* and the next free id.                                                   *)
(***************************************************************************)
\* the ids of a set of rows, in ascending order
RECURSIVE IdsAsc(_)
IdsAsc(ids) ==
    IF ids = {} THEN <<>>
    ELSE LET m == CHOOSE x \in ids : \A y \in ids : x <= y
         IN  <<m>> \o IdsAsc(ids \ {m})

\* chunks cut one item too long: list[i : i + _BATCH_SIZE + 1]
RECURSIVE ChunksInclusive(_, _)
ChunksInclusive(list, size) ==
    IF Len(list) = 0 THEN <<>>
    ELSE IF Len(list) <= size + 1 THEN <<list>>
    ELSE <<SubSeq(list, 1, size + 1)>>
             \o ChunksInclusive(SubSeq(list, size + 2, Len(list)), size)

\* list[i : i + _BATCH_SIZE] for i in range(0, len(list), _BATCH_SIZE)
RECURSIVE Chunks(_, _)
Chunks(list, size) ==
    IF Len(list) = 0 THEN <<>>
    ELSE IF Len(list) <= size THEN <<list>>
    ELSE <<SubSeq(list, 1, size)>> \o Chunks(SubSeq(list, size + 1, Len(list)), size)

\* postgres.py:220-229  MERGE (fv:FileVersion {commit_id, file_uuid, path})
\*                      SET fv.ts = ... RETURN id(fv)
MergeFileVersion(d, buf, commit_id, file_uuid, path, ts, nid) ==
    LET hit == {f \in VisFvs(d, buf) :
                   /\ f.commit_id = commit_id
                   /\ f.file_uuid = file_uuid
                   /\ f.path = path}
        hitIds == {f.id : f \in hit}
    IN  IF hit = {}
        THEN [buf |-> [buf EXCEPT !.fvs = @ \cup
                          {[id |-> nid, commit_id |-> commit_id,
                            file_uuid |-> file_uuid, path |-> path, ts |-> ts]}],
              nid |-> nid + 1,
              rows |-> {nid}]
        ELSE [buf |-> [buf EXCEPT
                          !.fvs = {IF f.id \in hitIds THEN [f EXCEPT !.ts = ts] ELSE f
                                      : f \in @},
                          !.set_ts = {u \in @ : u[1] \notin hitIds} \cup
                                     {<<f.id, ts>> : f \in {g \in d.fvs : g.id \in hitIds}}],
              nid |-> nid,
              rows |-> hitIds]

\* postgres.py:232-239  MATCH (prev:FileVersion {commit_id, path}) MATCH (cur)
\*                      MERGE (prev)-[r:NEXT_VERSION]->(cur)
RECURSIVE MergeNextVersion(_, _, _, _, _)
MergeNextVersion(d, buf, prevIds, cur, nid) ==
    IF Len(prevIds) = 0 \/ cur \notin VisVertexIds(d, buf)
    THEN [buf |-> buf, nid |-> nid]
    ELSE LET p == Head(prevIds)
             have == \E e \in VisNvedges(d, buf) : e.prev = p /\ e.cur = cur
         IN  IF have
             THEN MergeNextVersion(d, buf, Tail(prevIds), cur, nid)
             ELSE MergeNextVersion(d,
                      [buf EXCEPT !.nvedges = @ \cup {[id |-> nid, prev |-> p, cur |-> cur]}],
                      Tail(prevIds), cur, nid + 1)

\* the link statement matching the previous version on commit_id alone
LinkPreviousVersionAnyPath(d, buf, prev_commit, path, cur, nid) ==
    MergeNextVersion(d, buf,
        IdsAsc({f.id : f \in {g \in VisFvs(d, buf) : g.commit_id = prev_commit}}),
        cur, nid)

LinkPreviousVersion(d, buf, prev_commit, path, cur, nid) ==
    MergeNextVersion(d, buf,
        IdsAsc({f.id : f \in {g \in VisFvs(d, buf) :
                                 g.commit_id = prev_commit /\ g.path = path}}),
        cur, nid)

\* postgres.py:86-102  _batch_lookup_spans: the rows of
\*   MATCH (n:AstNode) WHERE n.span_key IN [...] RETURN n.span_key, id(n)
SpanRows(d, buf, span_keys) ==
    {<<n.span_key, n.id>> : n \in {m \in VisNodes(d, buf) :
                                      \E i \in 1..Len(span_keys) : span_keys[i] = m.span_key}}

\* postgres.py:105-120  _batch_create_nodes: one vertex per property dict,
\* ids returned in the order of the list
RECURSIVE _batch_create_nodes(_, _, _, _)
_batch_create_nodes(buf, node_props_list, nid, ids) ==
    IF Len(node_props_list) = 0
    THEN [buf |-> buf, nid |-> nid, ids |-> ids]
    ELSE LET p == Head(node_props_list)
         IN  _batch_create_nodes(
                 [buf EXCEPT !.nodes = @ \cup
                     {[id |-> nid, span_key |-> p.span_key, shape_hash |-> p.shape_hash,
                       file_uuid |-> p.file_uuid, type |-> p.type,
                       start_byte |-> p.start_byte, end_byte |-> p.end_byte]}],
                 Tail(node_props_list), nid + 1, Append(ids, nid))

\* the guard insert with ON CONFLICT DO NOTHING and no conflict target: a
\* row that repeats either key is skipped
RECURSIVE _batch_edge_guard_any_conflict(_, _, _)
_batch_edge_guard_any_conflict(d, buf, triples) ==
    IF Len(triples) = 0
    THEN [ok |-> TRUE, buf |-> buf]
    ELSE LET r == Head(triples)
             rows == VisGuard(d, buf)
         IN  IF \E g \in rows : /\ g.parent_id = r[1]
                                 /\ (g.child_id = r[2] \/ g.child_index = r[3])
             THEN _batch_edge_guard_any_conflict(d, buf, Tail(triples))
             ELSE _batch_edge_guard_any_conflict(d,
                      [buf EXCEPT !.guard = @ \cup
                          {[parent_id |-> r[1], child_id |-> r[2], child_index |-> r[3]]}],
                      Tail(triples))

\* postgres.py:123-139  _batch_edge_guard:
\*   INSERT INTO ast_edge_guard ... ON CONFLICT (parent_id, child_id) DO NOTHING
\* row by row: a row whose primary key exists is skipped; a row that passes
\* the arbiter and repeats (parent_id, child_index) is a unique violation.
RECURSIVE _batch_edge_guard(_, _, _)
_batch_edge_guard(d, buf, triples) ==
    IF Len(triples) = 0
    THEN [ok |-> TRUE, buf |-> buf]
    ELSE LET r == Head(triples)
             rows == VisGuard(d, buf)
         IN  IF \E g \in rows : g.parent_id = r[1] /\ g.child_id = r[2]
             THEN _batch_edge_guard(d, buf, Tail(triples))
             ELSE IF \E g \in rows : g.parent_id = r[1] /\ g.child_index = r[3]
             THEN [ok |-> FALSE, buf |-> buf]
             ELSE _batch_edge_guard(d,
                      [buf EXCEPT !.guard = @ \cup
                          {[parent_id |-> r[1], child_id |-> r[2], child_index |-> r[3]]}],
                      Tail(triples))

\* postgres.py:142-160  _batch_parent_edges:
\*   UNWIND ... MATCH (p) MATCH (c) MERGE (p)-[r:PARENT_OF]->(c) SET r.child_index = e.idx
RECURSIVE _batch_parent_edges(_, _, _, _)
_batch_parent_edges(d, buf, triples, nid) ==
    IF Len(triples) = 0
    THEN [buf |-> buf, nid |-> nid]
    ELSE LET r == Head(triples)
             vs == VisVertexIds(d, buf)
             hit == {e.id : e \in {x \in VisPedges(d, buf) :
                                      x.parent_id = r[1] /\ x.child_id = r[2]}}
         IN  IF r[1] \notin vs \/ r[2] \notin vs
             THEN _batch_parent_edges(d, buf, Tail(triples), nid)
             ELSE IF hit = {}
             THEN _batch_parent_edges(d,
                      [buf EXCEPT !.pedges = @ \cup
                          {[id |-> nid, parent_id |-> r[1], child_id |-> r[2],
                            child_index |-> r[3]]}],
                      Tail(triples), nid + 1)
             ELSE _batch_parent_edges(d,
                      [buf EXCEPT
                          !.pedges = {IF e.id \in hit THEN [e EXCEPT !.child_index = r[3]]
                                      ELSE e : e \in @},
                          !.set_idx = {u \in @ : u[1] \notin hit} \cup
                                      {<<e.id, r[3]>> : e \in {x \in d.pedges : x.id \in hit}}],
                      Tail(triples), nid)

\* postgres.py:163-187  _batch_occurs_edges:
\*   UNWIND ... MATCH (n) MATCH (fv)
\*   MERGE (n)-[r:OCCURS_IN {commit_id, file_uuid, start_byte, end_byte}]->(fv)
RECURSIVE _batch_occurs_edges(_, _, _, _, _, _, _)
_batch_occurs_edges(d, buf, occurs, file_version_id, commit_id, file_uuid, nid) ==
    IF Len(occurs) = 0
    THEN [buf |-> buf, nid |-> nid]
    ELSE LET o == Head(occurs)
             vs == VisVertexIds(d, buf)
             have == \E e \in VisOedges(d, buf) :
                        /\ e.node_id = o[1] /\ e.file_version_id = file_version_id
                        /\ e.commit_id = commit_id /\ e.file_uuid = file_uuid
                        /\ e.start_byte = o[2] /\ e.end_byte = o[3]
         IN  IF have \/ o[1] \notin vs \/ file_version_id \notin vs
             THEN _batch_occurs_edges(d, buf, Tail(occurs), file_version_id,
                                      commit_id, file_uuid, nid)
             ELSE _batch_occurs_edges(d,
                      [buf EXCEPT !.oedges = @ \cup
                          {[id |-> nid, node_id |-> o[1],
                            file_version_id |-> file_version_id,
                            commit_id |-> commit_id, file_uuid |-> file_uuid,
                            start_byte |-> o[2], end_byte |-> o[3]]}],
                      Tail(occurs), file_version_id, commit_id, file_uuid, nid + 1)

(***************************************************************************)
(* In-memory reference backend (db/memory.py).  A dict is a set of         *)
(* <<key, value>> pairs with one pair per key.                             *)
(***************************************************************************)
Has(dict, k) == \E e \in dict : e[1] = k
Get(dict, k) == IF Has(dict, k) THEN (CHOOSE e \in dict : e[1] = k)[2] ELSE None
Put(dict, k, val) == {e \in dict : e[1] # k} \cup {<<k, val>>}

\* memory.py:74-106  InMemoryGraphDatabase.persist_file
MemPersistFileOp(m, full_path, content_hash, fresh) ==
    LET existing_id == Get(m.files_by_path_hash, <<full_path, content_hash>>)
    IN  IF existing_id # None
        THEN [m |-> m, file_id |-> existing_id, created |-> FALSE]
        ELSE [m |-> [m EXCEPT
                        !.files = @ \cup {[file_id |-> fresh, full_path |-> full_path,
                                           content_hash |-> content_hash]},
                        !.files_by_path_hash =
                            Put(@, <<full_path, content_hash>>, fresh)],
              file_id |-> fresh, created |-> TRUE]

\* memory.py:219-265  InMemoryGraphDatabase._ingest_node
\* the lookup that consults the shape index first
ResolveIdShapeFirst(m, span_key, shape_hash) ==
    IF Get(m.ast_nodes_by_shape, shape_hash) # None
    THEN Get(m.ast_nodes_by_shape, shape_hash)
    ELSE Get(m.ast_nodes_by_span, span_key)

\* memory.py:238-240  node_id = ast_nodes_by_span.get(span_key), and
\* ast_nodes_by_shape.get(shape_hash) when that is None
ResolveId(m, span_key, shape_hash) ==
    IF Get(m.ast_nodes_by_span, span_key) # None
    THEN Get(m.ast_nodes_by_span, span_key)
    ELSE Get(m.ast_nodes_by_shape, shape_hash)

RECURSIVE _ingest_node(_, _, _, _, _)
RECURSIVE IngestChildren(_, _, _, _, _, _, _, _)

IngestChildren(m, children, k, file_uuid, source_bytes, occurrences, child_ids, child_shapes) ==
    IF k > Len(children)
    THEN [m |-> m, occurrences |-> occurrences,
          child_ids |-> child_ids, child_shapes |-> child_shapes]
    ELSE LET r == _ingest_node(m, children[k], file_uuid, source_bytes, occurrences)
         IN  IngestChildren(r.m, children, k + 1, file_uuid, source_bytes,
                            r.occurrences, Append(child_ids, r.node_id),
                            Append(child_shapes, r.shape_hash))

_ingest_node(m, node, file_uuid, source_bytes, occurrences) ==
    LET kids == IngestChildren(m, node.children, 1, file_uuid, source_bytes,
                               occurrences, <<>>, <<>>)
        m1 == kids.m
        span_key == make_span_key(UuidChars(file_uuid), TypeChars(node.type),
                                  node.start_byte, node.end_byte)
        src_slice == Slice(source_bytes, node.start_byte, node.end_byte)
        shape_hash == compute_shape_hash(node.type, src_slice, kids.child_shapes)
        found == ResolveId(m1, span_key, shape_hash)
        node_id == IF found # None THEN found ELSE m1.next_node_id
        m2 == IF found # None THEN m1
              ELSE [m1 EXCEPT
                       !.next_node_id = @ + 1,
                       !.ast_nodes = @ \cup
                           {[node_id |-> node_id, file_uuid |-> file_uuid,
                             node_type |-> node.type,
                             start_byte |-> node.start_byte, end_byte |-> node.end_byte,
                             span_key |-> span_key, shape_hash |-> shape_hash]},
                       !.ast_nodes_by_span = Put(@, span_key, node_id),
                       !.ast_nodes_by_shape = Put(@, shape_hash, node_id)]
        m3 == [m2 EXCEPT !.parent_edges = @ \cup
                  {<<node_id, kids.child_ids[j], j - 1>> : j \in 1..Len(kids.child_ids)}]
    IN  [m |-> m3,
         occurrences |-> Append(kids.occurrences,
                                <<node_id, node.start_byte, node.end_byte>>),
         node_id |-> node_id,
         shape_hash |-> shape_hash]

\* memory.py:108-142  InMemoryGraphDatabase.persist_file_ast
MemPersistFileAstOp(m, ast, file_uuid, file_path, source_bytes, commit_id, ts) ==
    LET file_version_id == m.next_file_version_id
        m1 == [m EXCEPT
                  !.next_file_version_id = @ + 1,
                  !.file_versions = Append(@,
                      [version_id |-> file_version_id, commit_id |-> commit_id,
                       file_uuid |-> file_uuid, path |-> file_path, ts |-> ts])]
        r == _ingest_node(m1, ast, file_uuid, source_bytes, <<>>)
    IN  [r.m EXCEPT !.occurrences = @ \o
            [k \in 1..Len(r.occurrences) |->
                [node_id |-> r.occurrences[k][1],
                 file_version_id |-> file_version_id,
                 commit_id |-> commit_id, file_uuid |-> file_uuid,
                 start_byte |-> r.occurrences[k][2],
                 end_byte |-> r.occurrences[k][3]]]]

(***************************************************************************)
(* Locals of one ingest.                                                   *)
(***************************************************************************)
RECURSIVE Flat(_)
Flat(chunks) ==
    IF Len(chunks) = 0 THEN <<>> ELSE Head(chunks) \o Flat(Tail(chunks))

\* the statements of a bulk operation run chunk after chunk, in input order
Batched(list) == Flat(Chunks(list, BATCH_SIZE))

\* postgres.py:213  node_props, edge_tuples, occurrence_tuples
Collected(j) == _collect_ast_data(Parse(j.content), j.file_uuid, SourceBytes(j.content))

\* postgres.py:244  all_span_keys
AllSpanKeys(j) ==
    LET n == Collected(j).nodes
    IN  [i \in 1..Len(n) |-> n[i].span_key]

\* postgres.py:248-257  new_indices / new_props: the nodes the lookup missed
NewProps(j) ==
    LET c == Collected(j)
        Missed(p) == \E i \in 1..Len(c.nodes) : c.nodes[i] = p /\ j.ids[i] = None
    IN  SelectSeq(c.nodes, Missed)

RECURSIVE FillIds(_, _, _)
\* postgres.py:262-263  index_to_age_id[node_idx] = created_ids[list_pos]
FillIds(ids, created_ids, i) ==
    IF i > Len(ids) THEN ids
    ELSE IF ids[i] = None /\ Len(created_ids) > 0
         THEN FillIds([ids EXCEPT ![i] = Head(created_ids)], Tail(created_ids), i + 1)
         ELSE FillIds(ids, created_ids, i + 1)

\* postgres.py:269-272  age_edge_triples
AgeEdgeTriples(j) ==
    LET e == Collected(j).edges
    IN  [k \in 1..Len(e) |-> <<j.ids[e[k][1] + 1], j.ids[e[k][2] + 1], e[k][3]>>]

\* age_occurs built from the newly created nodes only
AgeOccursOfNew(j) ==
    LET o == Collected(j).occurrences
        all == [k \in 1..Len(o) |-> <<j.ids[o[k][1] + 1], o[k][2], o[k][3]>>]
        Created(x) == x[1] >= j.seq * IdBlock
    IN  SelectSeq(all, Created)

\* postgres.py:277  age_occurs
AgeOccurs(j) ==
    LET o == Collected(j).occurrences
    IN  [k \in 1..Len(o) |-> <<j.ids[o[k][1] + 1], o[k][2], o[k][3]>>]

\* git.py:29-73  get_git_commit_info: the commits the environment may have
\* made since the last call are an input of this call
GitHeads == head..(IF head < MaxCommits THEN head + 1 ELSE head)

\* git.py:76-105  get_previous_commit_for_file: the commit before commit_id
PrevCommit(commit_id) ==
    IF commit_id >= 2 THEN commit_id - 1 ELSE None

\* the dedup SELECT matching on full_path alone
ExistingIdsByPath(rows, full_path, content_hash) ==
    {r.id : r \in {x \in rows : x.full_path = full_path}}

\* postgres.py:316-343  the dedup SELECT of _persist_file
ExistingIds(rows, full_path, content_hash) ==
    {r.id : r \in {x \in rows : x.full_path = full_path /\ x.content_hash = content_hash}}

\* uuid.uuid4(): a value no other call returns
Uuid4(j) == j.seq

\* the buffer a statement runs on, and where its rows go
Base(t, c) == IF c = "new" THEN EmptyBuf ELSE tx[t]

Store(t, c, buf) ==
    IF c = "new"
    THEN db' = CommitBuf(db, buf) /\ tx' = tx
    ELSE db' = db /\ tx' = [tx EXCEPT ![t] = buf]

TxSteps == {"fv_merge", "link_prev", "lookup", "create", "guard", "edges", "occurs", "commit"}

\* the position of a statement in a list of statements
RECURSIVE IndexOf(_, _, _)
IndexOf(list, x, i) ==
    IF i > Len(list) \/ list[i] = x THEN i ELSE IndexOf(list, x, i + 1)

\* the transaction block with the edge merges ahead of the vertex creation
AfterEdgesFirst(stmt) ==
    LET order == <<"fv_merge", "link_prev", "lookup", "edges", "occurs", "create",
                   "guard", "commit">>
    IN  order[IndexOf(order, stmt, 1) + 1]

\* postgres.py:217-279  the statement that follows stmt inside the
\* engine.begin() block of _persist_file_ast_to_age
After(stmt) ==
    LET order == <<"fv_merge", "link_prev", "lookup", "create", "guard", "edges",
                   "occurs", "commit">>
    IN  order[IndexOf(order, stmt, 1) + 1]

(***************************************************************************)
(* Arguments of run_ingest (core/ingest.py, core/languages.py).  A path or *)
(* a language left out is "": `if path` and `if language` treat None and   *)
(* the empty string alike.  Inline code is tested with `is not None`.      *)
(***************************************************************************)
RelPaths == {"a.py"}   \* paths relative to the working directory
Cwd == "/"

\* Path(path).resolve(): an absolute path stays, a relative one is joined
\* to the working directory
Resolve(path) == IF path \in RelPaths THEN Cwd \o path ELSE path

\* Path(path).suffix.lower() of the paths of the model
Suffix(path) == IF path \in {"/a.py", "/b.py", "a.py"} THEN ".py" ELSE ".txt"

\* languages.py:20-21, 55, 78  the entries of the language tables for Python
_LANGUAGE_ALIASES == {<<"python", "python">>, <<"py", "python">>}
_EXTENSION_LANGUAGE_MAP == {<<".py", "python">>}
_LANGUAGE_DEFAULT_EXTENSIONS == {<<"python", ".py">>}

\* languages.py:90-95  normalize_language
normalize_language(language) ==
    LET resolved == IF Has(_LANGUAGE_ALIASES, language)
                    THEN Get(_LANGUAGE_ALIASES, language) ELSE language
    IN  IF Has(_LANGUAGE_DEFAULT_EXTENSIONS, resolved)
        THEN [lang |-> resolved] ELSE [exc |-> "ValueError"]

\* languages.py:98-102  detect_language_from_path
detect_language_from_path(file_path) ==
    IF Has(_EXTENSION_LANGUAGE_MAP, Suffix(file_path))
    THEN [lang |-> Get(_EXTENSION_LANGUAGE_MAP, Suffix(file_path))]
    ELSE [exc |-> "ValueError"]

\* languages.py:105-110  resolve_language
resolve_language(language, file_path) ==
    IF language # "" THEN normalize_language(language)
    ELSE IF file_path # "" THEN detect_language_from_path(file_path)
    ELSE [exc |-> "ValueError"]

\* languages.py:113-118  write_temp_code_file: NamedTemporaryFile(delete=False,
\* suffix=...) makes a file no other call made; n numbers the calls
write_temp_code_file(language, n) ==
    "/tmp/tmp" \o ToString(n) \o
        (IF Has(_LANGUAGE_DEFAULT_EXTENSIONS, language)
         THEN Get(_LANGUAGE_DEFAULT_EXTENSIONS, language) ELSE ".txt")

\* a finally clause that runs on a normal return only
FinallyOnReturn(disk, temp_path, raised) ==
    IF temp_path # "" /\ ~raised THEN disk \ {temp_path} ELSE disk

\* ingest.py:33-35  finally: if temp_path: temp_path.unlink(missing_ok=True)
Finally(disk, temp_path, raised) ==
    IF temp_path # "" THEN disk \ {temp_path} ELSE disk

(***************************************************************************)
(* Actions.                                                                *)
(***************************************************************************)
Init ==
    /\ backend \in Backends
    /\ head = 0
    /\ files = {}
    /\ db = EmptyDb
    /\ tx = [t \in Tasks |-> EmptyBuf]
    /\ mem = EmptyMem
    /\ pc = [t \in Tasks |-> "idle"]
    /\ job = [t \in Tasks |-> IdleJob]
    /\ started = 0
    /\ failures = 0
    /\ call = NoCall
    /\ temp = {}
    /\ catalog = ReadyCatalog
    /\ ens = [t \in Tasks |-> IdleEnsure]
    /\ _graph_ensured = TRUE

\* ingest.py:8-29  run_ingest(database, path, code, language) up to the
\* first storage call; content is what the file at path holds
RunIngest(t, path, content, code, language, limit) ==
    /\ pc[t] = "idle"
    /\ started < limit
    /\ started' = started + 1
    /\ \A u \in Tasks : u < t => pc[u] # "idle"
    /\ LET seq == started + 1
           file_path == IF path # "" /\ code = NoCode THEN path ELSE ""
           resolved_language == resolve_language(language, file_path)
           fresh == [IdleJob EXCEPT !.seq = seq, !.next_id = seq * IdBlock,
                                    !.args = <<path, code, language>>]
       IN  IF "exc" \in DOMAIN resolved_language
           THEN /\ job' = [job EXCEPT ![t] = [fresh EXCEPT !.exc = resolved_language.exc]]
                /\ pc' = [pc EXCEPT ![t] = "raised"]
                /\ temp' = temp
           ELSE IF code # NoCode
           THEN LET temp_path == write_temp_code_file(resolved_language.lang, seq)
                IN  /\ temp' = temp \cup {temp_path}
                    /\ job' = [job EXCEPT ![t] = [fresh EXCEPT !.path = temp_path,
                                                               !.content = code,
                                                               !.temp_path = temp_path]]
                    /\ pc' = [pc EXCEPT ![t] = "persist_file"]
           ELSE IF file_path = ""
           THEN /\ job' = [job EXCEPT ![t] = [fresh EXCEPT !.exc = "AssertionError"]]
                /\ pc' = [pc EXCEPT ![t] = "raised"]
                /\ temp' = temp
           ELSE /\ job' = [job EXCEPT ![t] = [fresh EXCEPT !.path = file_path,
                                                           !.content = content]]
                /\ pc' = [pc EXCEPT ![t] = "persist_file"]
                /\ temp' = temp
    /\ UNCHANGED <<ensureVars, call, backend, head, files, db, tx, mem, failures>>

\* run_ingest called with the path of a file that holds content
Start(t, path, content, limit) ==
    RunIngest(t, path, content, NoCode, "", limit)

\* postgres.py:330-343  _persist_file: SELECT id FROM files WHERE ... LIMIT 1
PFSelect(t) ==
    /\ backend = "pg"
    /\ pc[t] = "persist_file"
    /\ LET ex == ExistingIds(files, Resolve(job[t].path), ContentHash(job[t].content))
       IN  IF ex # {}
           THEN \E id \in ex, h \in GitHeads :
                   /\ job' = [job EXCEPT ![t].file_uuid = id, ![t].commit_id = h]
                   /\ head' = h
                   /\ pc' = [pc EXCEPT ![t] = "fv_merge"]
           ELSE /\ pc' = [pc EXCEPT ![t] = "pf_insert"]
                /\ job' = job
                /\ head' = head
    /\ UNCHANGED <<ensureVars, temp, call, backend, files, db, tx, mem, started, failures>>

\* postgres.py:345-371  _persist_file: INSERT INTO files ... and commit
PFInsert(t) ==
    /\ backend = "pg"
    /\ pc[t] = "pf_insert"
    /\ files' = files \cup {[id |-> Uuid4(job[t]), full_path |-> Resolve(job[t].path),
                             content_hash |-> ContentHash(job[t].content)]}
    /\ \E h \in GitHeads :
          /\ job' = [job EXCEPT ![t].file_uuid = Uuid4(job[t]), ![t].commit_id = h]
          /\ head' = h
    /\ pc' = [pc EXCEPT ![t] = "fv_merge"]
    /\ UNCHANGED <<ensureVars, temp, call, backend, db, tx, mem, started, failures>>

\* postgres.py:217-231  engine.begin(), MERGE FileVersion, previous commit
FVMerge(t) ==
    /\ backend = "pg"
    /\ pc[t] = "fv_merge"
    /\ LET c == _use_conn("tx")
           j == job[t]
           ts == IF j.commit_id = LOCAL_COMMIT THEN j.seq ELSE 0
           r == MergeFileVersion(db, Base(t, c), j.commit_id, j.file_uuid, j.path,
                                 ts, j.next_id)
           prev_commit == IF j.commit_id # LOCAL_COMMIT THEN PrevCommit(j.commit_id)
                          ELSE None
       IN  /\ Store(t, c, r.buf)
           /\ \E fv \in r.rows :
                 job' = [job EXCEPT ![t].file_version_id = fv, ![t].next_id = r.nid]
           /\ pc' = [pc EXCEPT ![t] = IF prev_commit # None THEN After("fv_merge")
                                     ELSE After("link_prev")]
    /\ UNCHANGED <<ensureVars, temp, call, backend, head, files, mem, started, failures>>

\* postgres.py:232-239  MERGE NEXT_VERSION from the previous commit's version
LinkPrev(t) ==
    /\ backend = "pg"
    /\ pc[t] = "link_prev"
    /\ LET c == _use_conn("tx")
           j == job[t]
           r == LinkPreviousVersion(db, Base(t, c), PrevCommit(j.commit_id), j.path,
                                    j.file_version_id, j.next_id)
       IN  /\ Store(t, c, r.buf)
           /\ job' = [job EXCEPT ![t].next_id = r.nid]
    /\ pc' = [pc EXCEPT ![t] = After("link_prev")]
    /\ UNCHANGED <<ensureVars, temp, call, backend, head, files, mem, started, failures>>

\* postgres.py:242-257  _batch_lookup_spans; span_to_id keeps, per span key,
\* the id of the last row returned, and the row order is not specified
SpanLookup(t) ==
    /\ backend = "pg"
    /\ pc[t] = "lookup"
    /\ LET c == _use_conn("tx")
           keys == AllSpanKeys(job[t])
           rows == SpanRows(db, Base(t, c), Batched(keys))
           hitKeys == {r[1] : r \in rows}
       IN  \E span_to_id \in [hitKeys -> {r[2] : r \in rows}] :
              /\ \A k \in hitKeys : <<k, span_to_id[k]>> \in rows
              /\ job' = [job EXCEPT ![t].ids =
                            [i \in 1..Len(keys) |->
                                IF keys[i] \in hitKeys THEN span_to_id[keys[i]] ELSE None]]
    /\ pc' = [pc EXCEPT ![t] = After("lookup")]
    /\ UNCHANGED <<ensureVars, temp, call, backend, head, files, db, tx, mem, started, failures>>

\* postgres.py:259-263  _batch_create_nodes for the nodes the lookup missed
CreateNodes(t) ==
    /\ backend = "pg"
    /\ pc[t] = "create"
    /\ LET c == _use_conn("tx")
           r == _batch_create_nodes(Base(t, c), Batched(NewProps(job[t])),
                                    job[t].next_id, <<>>)
       IN  /\ Store(t, c, r.buf)
           /\ job' = [job EXCEPT ![t].ids = FillIds(@, r.ids, 1), ![t].next_id = r.nid]
    /\ pc' = [pc EXCEPT ![t] = After("create")]
    /\ UNCHANGED <<ensureVars, temp, call, backend, head, files, mem, started, failures>>

\* a guard row another open transaction wrote and that repeats a key of r
LockedBy(u, r) ==
    \E g \in tx[u].guard :
        /\ g.parent_id = r[1]
        /\ (g.child_id = r[2] \/ g.child_index = r[3])

\* postgres.py:273  _batch_edge_guard; a unique violation aborts the ingest
GuardInsert(t) ==
    /\ backend = "pg"
    /\ pc[t] = "guard"
    /\ LET c == _use_conn("tx")
           triples == Batched(AgeEdgeTriples(job[t]))
           r == _batch_edge_guard(db, Base(t, c), triples)
       IN  /\ \A u \in Tasks \ {t} : \A k \in 1..Len(triples) : ~LockedBy(u, triples[k])
           /\ IF r.ok
              THEN /\ Store(t, c, r.buf)
                   /\ pc' = [pc EXCEPT ![t] = After("guard")]
                   /\ job' = job
              ELSE /\ db' = AExit(db, tx[t], "IntegrityError")
                   /\ tx' = [tx EXCEPT ![t] = EmptyBuf]
                   /\ pc' = [pc EXCEPT ![t] = "failed"]
                   /\ job' = [job EXCEPT ![t].failed_at = "guard",
                                         ![t].exc = "IntegrityError"]
    /\ UNCHANGED <<ensureVars, temp, call, backend, head, files, mem, started, failures>>

\* postgres.py:274  _batch_parent_edges
ParentEdges(t) ==
    /\ backend = "pg"
    /\ pc[t] = "edges"
    /\ LET c == _use_conn("tx")
           r == _batch_parent_edges(db, Base(t, c), Batched(AgeEdgeTriples(job[t])),
                                    job[t].next_id)
       IN  /\ Store(t, c, r.buf)
           /\ job' = [job EXCEPT ![t].next_id = r.nid]
    /\ pc' = [pc EXCEPT ![t] = After("edges")]
    /\ UNCHANGED <<ensureVars, temp, call, backend, head, files, mem, started, failures>>

\* postgres.py:276-278  _batch_occurs_edges
OccursEdges(t) ==
    /\ backend = "pg"
    /\ pc[t] = "occurs"
    /\ LET c == _use_conn("tx")
           j == job[t]
           r == _batch_occurs_edges(db, Base(t, c), Batched(AgeOccurs(j)),
                                    j.file_version_id, j.commit_id, j.file_uuid,
                                    j.next_id)
       IN  /\ Store(t, c, r.buf)
           /\ job' = [job EXCEPT ![t].next_id = r.nid]
    /\ pc' = [pc EXCEPT ![t] = After("occurs")]
    /\ UNCHANGED <<ensureVars, temp, call, backend, head, files, mem, started, failures>>

\* postgres.py:217  leaving `async with engine.begin()` normally: COMMIT
Commit(t) ==
    /\ backend = "pg"
    /\ pc[t] = "commit"
    /\ db' = AExit(db, tx[t], "")
    /\ tx' = [tx EXCEPT ![t] = EmptyBuf]
    /\ pc' = [pc EXCEPT ![t] = "done"]
    /\ UNCHANGED <<ensureVars, temp, call, backend, head, files, mem, job, started, failures>>

\* postgres.py:217  a statement of the transaction raises: ROLLBACK
Fail(t) ==
    /\ backend = "pg"
    /\ pc[t] \in TxSteps
    /\ failures < MaxFailures
    /\ failures' = failures + 1
    /\ db' = AExit(db, tx[t], "Error")
    /\ tx' = [tx EXCEPT ![t] = EmptyBuf]
    /\ job' = [job EXCEPT ![t].failed_at = pc[t], ![t].exc = "Error"]
    /\ pc' = [pc EXCEPT ![t] = "failed"]
    /\ UNCHANGED <<ensureVars, temp, call, backend, head, files, mem, started>>

\* ingest.py:30  persist_file raises: the file cannot be read, or a statement
\* of its transaction fails
FailPersistFile(t) ==
    /\ pc[t] \in {"persist_file", "pf_insert"}
    /\ failures < MaxFailures
    /\ failures' = failures + 1
    /\ job' = [job EXCEPT ![t].failed_at = "persist_file", ![t].exc = "Error"]
    /\ pc' = [pc EXCEPT ![t] = "failed"]
    /\ UNCHANGED <<ensureVars, temp, call, backend, head, files, db, tx, mem, started>>

\* ingest.py:31  extract_ast_from_file raises (ast.py:14-15, 54-57)
FailParse(t) ==
    /\ pc[t] \in {"fv_merge", "mem_ast"}
    /\ failures < MaxFailures
    /\ failures' = failures + 1
    /\ job' = [job EXCEPT ![t].failed_at = "parse", ![t].exc = "Error"]
    /\ pc' = [pc EXCEPT ![t] = "failed"]
    /\ UNCHANGED <<ensureVars, temp, call, backend, head, files, db, tx, mem, started>>

\* the awaits of the Postgres backend at which a task can be cancelled
\* (postgres.py:328-371 and 196-278); memory.py awaits nothing
SuspensionPoints == {"persist_file", "pf_insert"} \cup TxSteps

\* task.cancel(): CancelledError is raised at the await the task is
\* suspended at and leaves the open transaction block
Cancel(t) ==
    /\ backend = "pg"
    /\ pc[t] \in SuspensionPoints
    /\ failures < MaxFailures
    /\ failures' = failures + 1
    /\ db' = AExit(db, tx[t], "CancelledError")
    /\ tx' = [tx EXCEPT ![t] = EmptyBuf]
    /\ job' = [job EXCEPT ![t].failed_at = pc[t], ![t].exc = "CancelledError"]
    /\ pc' = [pc EXCEPT ![t] = "failed"]
    /\ UNCHANGED <<ensureVars, temp, call, backend, head, files, mem, started>>

\* memory.py:74-106  persist_file of the in-memory backend
MemPersistFile(t) ==
    /\ backend = "mem"
    /\ pc[t] = "persist_file"
    /\ LET r == MemPersistFileOp(mem, Resolve(job[t].path), ContentHash(job[t].content),
                                  Uuid4(job[t]))
       IN  /\ mem' = r.m
           /\ \E h \in GitHeads :
                 /\ job' = [job EXCEPT ![t].file_uuid = r.file_id, ![t].commit_id = h]
                 /\ head' = h
    /\ pc' = [pc EXCEPT ![t] = "mem_ast"]
    /\ UNCHANGED <<ensureVars, temp, call, backend, files, db, tx, started, failures>>

\* memory.py:108-142  persist_file_ast of the in-memory backend
MemPersistFileAst(t) ==
    /\ backend = "mem"
    /\ pc[t] = "mem_ast"
    /\ LET j == job[t]
           ts == IF j.commit_id = LOCAL_COMMIT THEN j.seq ELSE 0
       IN  /\ mem' = MemPersistFileAstOp(mem, Parse(j.content), j.file_uuid, j.path,
                                         SourceBytes(j.content), j.commit_id, ts)
           /\ job' = [job EXCEPT ![t].file_version_id = mem.next_file_version_id]
    /\ pc' = [pc EXCEPT ![t] = "done"]
    /\ UNCHANGED <<ensureVars, temp, call, backend, head, files, db, tx, started, failures>>

\* ingest.py:33-37  run_ingest returns or raises
Finish(t) ==
    /\ pc[t] \in {"done", "failed", "raised"}
    /\ temp' = IF pc[t] = "raised" THEN temp
               ELSE Finally(temp, job[t].temp_path, pc[t] = "failed")
    /\ pc' = [pc EXCEPT ![t] = "idle"]
    /\ job' = [job EXCEPT ![t] = IdleJob]
    /\ UNCHANGED <<ensureVars, call, backend, head, files, db, tx, mem, started, failures>>

Step(T, limit) ==
    \/ \E t \in T, path \in Paths, content \in Contents : Start(t, path, content, limit)
    \/ \E t \in T : PFSelect(t)
    \/ \E t \in T : PFInsert(t)
    \/ \E t \in T : FVMerge(t)
    \/ \E t \in T : LinkPrev(t)
    \/ \E t \in T : SpanLookup(t)
    \/ \E t \in T : CreateNodes(t)
    \/ \E t \in T : GuardInsert(t)
    \/ \E t \in T : ParentEdges(t)
    \/ \E t \in T : OccursEdges(t)
    \/ \E t \in T : Commit(t)
    \/ \E t \in T : Fail(t)
    \/ \E t \in T : MemPersistFile(t)
    \/ \E t \in T : MemPersistFileAst(t)
    \/ \E t \in T : Finish(t)

\* cooperative tasks interleaved at the storage calls
Next == Step(Tasks, MaxOverlapped)

Spec == Init /\ [][Next]_vars

\* one task: every call returns before the next one starts
SeqNext == Step({1}, MaxIngests)

SeqSpec == Init /\ [][SeqNext]_vars

\* the state in which the helpers and endpoints outside run_ingest are called
Rest == Init /\ backend = "pg"

(***************************************************************************)
(* run_ingest with every form of its arguments, failing or cancelled at    *)
(* any step.                                                               *)
(***************************************************************************)
MaxRuns == 2           \* run_ingest calls started in a run with free arguments

RunPaths == {"/a.py", "a.py", "/c.txt", ""}
RunCodes == {"n", NoCode}
Languages == {"", "py", "cobol"}

RunNext ==
    \/ \E path \in RunPaths, content \in Contents, code \in RunCodes,
          language \in Languages :
          RunIngest(1, path, content, code, language, MaxRuns)
    \/ PFSelect(1)
    \/ PFInsert(1)
    \/ FVMerge(1)
    \/ LinkPrev(1)
    \/ SpanLookup(1)
    \/ CreateNodes(1)
    \/ GuardInsert(1)
    \/ ParentEdges(1)
    \/ OccursEdges(1)
    \/ Commit(1)
    \/ Fail(1)
    \/ FailPersistFile(1)
    \/ FailParse(1)
    \/ Cancel(1)
    \/ MemPersistFile(1)
    \/ MemPersistFileAst(1)
    \/ Finish(1)

RunSpec == Init /\ [][RunNext]_vars

(***************************************************************************)
(* Repeated ingests into Postgres of files whose trees repeat a span key   *)
(* or a leaf, so that a later ingest meets the guard rows of an earlier    *)
(* one.                                                                    *)
(***************************************************************************)
MaxGuardRuns == 2      \* run_ingest calls started in a run of repeated ingests

GuardContents == {"e", "n"}

GuardInit == Init /\ backend = "pg"

GuardNext ==
    \/ \E path \in Paths, content \in GuardContents :
          Start(1, path, content, MaxGuardRuns)
    \/ PFSelect(1)
    \/ PFInsert(1)
    \/ FVMerge(1)
    \/ LinkPrev(1)
    \/ SpanLookup(1)
    \/ CreateNodes(1)
    \/ GuardInsert(1)
    \/ ParentEdges(1)
    \/ OccursEdges(1)
    \/ Commit(1)
    \/ Finish(1)

GuardSpec == GuardInit /\ [][GuardNext]_vars

(***************************************************************************)
(* Properties.                                                             *)
(***************************************************************************)
\* the committed graph without the FileVersion metadata an ingest refreshes
GraphSets(d) ==
    [nodes |-> d.nodes, pedges |-> d.pedges, oedges |-> d.oedges,
     guard |-> d.guard,
     fvs |-> {[id |-> f.id, commit_id |-> f.commit_id, file_uuid |-> f.file_uuid,
               path |-> f.path] : f \in d.fvs}]

\* an earlier ingest of the same (path, bytes) at the same commit committed
IngestedBefore(j) ==
    \E f \in db.fvs :
        /\ f.file_uuid = j.file_uuid
        /\ f.commit_id = j.commit_id
        /\ f.path = j.path

\* C1: re-ingest idempotence on Postgres.  When an ingest of a (path, bytes)
\* that was already ingested at the same commit commits, the sets of AstNode
\* vertices, PARENT_OF edges, OCCURS_IN edges, guard rows and FileVersion
\* vertices are the ones the first ingest left (FileVersion ts aside).
ReingestIdempotent ==
    [][\A t \in Tasks :
          (backend = "pg" /\ pc[t] = "commit" /\ pc'[t] = "done" /\ IngestedBefore(job[t]))
              => GraphSets(db') = GraphSets(db)]_vars

\* C3: span uniqueness on Postgres.  No two committed AstNode vertices carry
\* the same span_key.
SpanUniqueness ==
    backend = "pg" =>
        \A n1 \in db.nodes, n2 \in db.nodes : n1.span_key = n2.span_key => n1.id = n2.id

\* child_index values of a set of edges out of one vertex are 0..N-1, each once
IndexedFromZero(indices, n) ==
    /\ Cardinality(indices) = n
    /\ indices = 0..(n - 1)

\* C4: ordered children.  For every AstNode vertex the child_index values of
\* its outgoing PARENT_OF edges are pairwise distinct and are exactly 0..N-1,
\* in the committed Postgres graph and in the in-memory backend.
OrderedChildren ==
    /\ \A n \in db.nodes :
          LET out == {e \in db.pedges : e.parent_id = n.id}
          IN  /\ \A e1 \in out, e2 \in out : e1.child_index = e2.child_index => e1 = e2
              /\ IndexedFromZero({e.child_index : e \in out}, Cardinality(out))
    /\ \A n \in mem.ast_nodes :
          LET out == {e \in mem.parent_edges : e[1] = n.node_id}
          IN  /\ \A e1 \in out, e2 \in out : e1[3] = e2[3] => e1 = e2
              /\ IndexedFromZero({e[3] : e \in out}, Cardinality(out))

\* C5: no duplicate parentage in the in-memory backend.  Each
\* (parent_id, child_id) pair appears in at most one entry of parent_edges.
MemNoDuplicateParentage ==
    \A e1 \in mem.parent_edges, e2 \in mem.parent_edges :
        (e1[1] = e2[1] /\ e1[2] = e2[2]) => e1 = e2

\* C2: all-or-nothing ingest.  No statement of an open ingest transaction
\* changes the committed graph or the guard table, and a statement that
\* raises (at any step, the unique violation of the guard insert included)
\* discards every row the transaction wrote; the files table keeps the
\* FileRecord that persist_file committed before the transaction began.
FailedIngestLeavesGraph ==
    [][\A t \in Tasks :
          (pc[t] \in TxSteps /\ pc'[t] # pc[t] /\ pc'[t] # "done")
              => /\ db' = db
                 /\ files' = files
                 /\ (pc'[t] = "failed" => tx'[t] = EmptyBuf)]_vars

\* an ingest failed at its last statement, after every batch had run; the
\* graph is as it was before it and the FileRecord is stored
FailedIngestWitness ==
    \E t \in Tasks :
        /\ pc[t] = "failed"
        /\ job[t].failed_at = "commit"
        /\ db = EmptyDb
        /\ tx[t] = EmptyBuf
        /\ \E r \in files : r.id = job[t].file_uuid

\* the vertex a finished Postgres ingest resolved its k-th node to
OccursInPg(j, k) ==
    LET n == Collected(j).nodes[k]
    IN  /\ \E v \in db.nodes : v.id = j.ids[k] /\ v.span_key = n.span_key
        /\ \E f \in db.fvs : f.id = j.file_version_id
        /\ \E e \in db.oedges :
              /\ e.node_id = j.ids[k]
              /\ e.file_version_id = j.file_version_id
              /\ e.start_byte = n.start_byte
              /\ e.end_byte = n.end_byte
              /\ e.commit_id = j.commit_id
              /\ e.file_uuid = j.file_uuid

\* the occurrence record a finished in-memory ingest appended for its k-th node
OccursInMem(j, k) ==
    LET n == Collected(j).nodes[k]
    IN  \E i \in 1..Len(mem.occurrences) :
           LET o == mem.occurrences[i]
           IN  /\ o.file_version_id = j.file_version_id
               /\ o.start_byte = n.start_byte
               /\ o.end_byte = n.end_byte
               /\ o.commit_id = j.commit_id
               /\ o.file_uuid = j.file_uuid
               /\ \E v \in mem.ast_nodes :
                     /\ v.node_id = o.node_id
                     /\ (v.span_key = n.span_key \/ v.shape_hash = n.shape_hash)

\* C6: occurrence completeness.  After a successful ingest of FileVersion F
\* every node of the parsed tree has an OCCURS_IN edge (occurrence record)
\* from the vertex it was resolved to, to F, with the node's start_byte and
\* end_byte and the ingest's commit_id and file_uuid.
OccurrenceCompleteness ==
    \A t \in Tasks :
        pc[t] = "done" =>
            \A k \in 1..Len(Collected(job[t]).nodes) :
                IF backend = "pg" THEN OccursInPg(job[t], k) ELSE OccursInMem(job[t], k)

\* a finished Postgres ingest that resolved a node to a vertex an earlier
\* ingest created
OccurrenceWitness ==
    \E t \in Tasks :
        /\ backend = "pg"
        /\ pc[t] = "done"
        /\ \E k \in 1..Len(job[t].ids) : job[t].ids[k] < job[t].seq * IdBlock

\* the task's persist_file call has returned
Returned(t) == pc[t] \notin {"idle", "persist_file", "pf_insert"}

\* C7: file-record determinism of sequential persist_file calls.  In both
\* backends the stored records pair each (full_path, content_hash) with one
\* UUID and each UUID with one pair, and the UUID a call returned is the
\* one stored for the pair it was called with.
FileRecordDeterminism ==
    /\ \A r1 \in files, r2 \in files :
          (r1.id = r2.id) <=>
              (r1.full_path = r2.full_path /\ r1.content_hash = r2.content_hash)
    /\ \A r1 \in mem.files, r2 \in mem.files :
          (r1.file_id = r2.file_id) <=>
              (r1.full_path = r2.full_path /\ r1.content_hash = r2.content_hash)
    /\ \A t \in Tasks :
          Returned(t) =>
              IF backend = "pg"
              THEN [id |-> job[t].file_uuid, full_path |-> job[t].path,
                    content_hash |-> ContentHash(job[t].content)] \in files
              ELSE [file_id |-> job[t].file_uuid, full_path |-> job[t].path,
                    content_hash |-> ContentHash(job[t].content)] \in mem.files

\* a persist_file call returned the UUID an earlier call stored, while a
\* second pair is stored under another UUID
FileRecordWitness ==
    \E t \in Tasks :
        /\ backend = "pg"
        /\ Returned(t)
        /\ job[t].file_uuid # Uuid4(job[t])
        /\ Cardinality(files) = 2

\* C8: two concurrent ingests of one file on Postgres.  When both have
\* committed, the graph holds one AstNode vertex per span key of the file,
\* one PARENT_OF edge per (parent, child) and one OCCURS_IN edge per
\* occurrence key, as after a single ingest.
ConcurrentIngestNoDuplicates ==
    \A t1 \in Tasks, t2 \in Tasks :
        (/\ backend = "pg"
         /\ t1 # t2
         /\ pc[t1] = "done" /\ pc[t2] = "done"
         /\ job[t1].file_uuid = job[t2].file_uuid
         /\ job[t1].commit_id = job[t2].commit_id)
        => LET u == job[t1].file_uuid
               mine == {n \in db.nodes : n.file_uuid = u}
               ids == {n.id : n \in mine}
               keys == {AllSpanKeys(job[t1])[i] : i \in 1..Len(AllSpanKeys(job[t1]))}
           IN  /\ Cardinality(mine) = Cardinality(keys)
               /\ \A e1 \in db.pedges, e2 \in db.pedges :
                     (e1.parent_id \in ids /\ e1.parent_id = e2.parent_id
                         /\ e1.child_id = e2.child_id) => e1 = e2
               /\ Cardinality({e \in db.pedges : e.parent_id \in ids})
                     = Len(Collected(job[t1]).edges)
               /\ Cardinality({e \in db.oedges : e.file_uuid = u})
                     = Len(Collected(job[t1]).occurrences)
               /\ Cardinality({f \in db.fvs : f.file_uuid = u}) = 1

\* C9: two persist_file calls for one (full_path, content_hash) pair that
\* interleave between the SELECT and the INSERT return the same UUID, and
\* the files table holds exactly one row for the pair.
ConcurrentPersistFileDedup ==
    \A t1 \in Tasks, t2 \in Tasks :
        (/\ backend = "pg"
         /\ Returned(t1) /\ Returned(t2)
         /\ job[t1].path = job[t2].path
         /\ job[t1].content = job[t2].content)
        => /\ job[t1].file_uuid = job[t2].file_uuid
           /\ Cardinality({r \in files :
                  /\ r.full_path = job[t1].path
                  /\ r.content_hash = ContentHash(job[t1].content)}) = 1

\* C10: structural fallback on Postgres.  A vertex an ingest creates has a
\* shape_hash no AstNode already in the graph has: a node that misses the
\* span lookup and whose shape_hash is in the graph adopts the existing
\* vertex instead.
ShapeFallback ==
    \A t \in Tasks :
        backend = "pg" =>
            \A n \in tx[t].nodes :
                ~\E m \in db.nodes : m.shape_hash = n.shape_hash

\* pairs of collected nodes that are children of one parent and have the
\* same type, source text and child shapes
IdenticalSiblings(j) ==
    LET c == Collected(j)
    IN  {p \in (1..Len(c.nodes)) \X (1..Len(c.nodes)) :
            /\ p[1] # p[2]
            /\ c.nodes[p[1]].shape_hash = c.nodes[p[2]].shape_hash
            /\ c.nodes[p[1]].span_key # c.nodes[p[2]].span_key
            /\ \E e1 \in 1..Len(c.edges), e2 \in 1..Len(c.edges) :
                  /\ c.edges[e1][1] = c.edges[e2][1]
                  /\ c.edges[e1][2] + 1 = p[1]
                  /\ c.edges[e2][2] + 1 = p[2]}

\* the <<id, span_key, shape_hash>> of every stored AstNode
StoredAstNodes ==
    IF backend = "pg"
    THEN {<<v.id, v.span_key, v.shape_hash>> : v \in db.nodes}
    ELSE {<<v.node_id, v.span_key, v.shape_hash>> : v \in mem.ast_nodes}

\* C11: identical sibling subtrees.  After an ingest of a tree with sibling
\* subtrees of identical type, source text and child shapes, each sibling
\* has an AstNode vertex of its own: the vertices have pairwise distinct
\* span_keys and the common shape_hash, in both backends.
IdenticalSiblingsKeepVertices ==
    \A t \in Tasks :
        pc[t] = "done" =>
            \A p \in IdenticalSiblings(job[t]) :
                LET c == Collected(job[t])
                IN  \E v1 \in StoredAstNodes, v2 \in StoredAstNodes :
                       /\ v1[1] # v2[1]
                       /\ v1[2] = c.nodes[p[1]].span_key
                       /\ v2[2] = c.nodes[p[2]].span_key
                       /\ v1[3] = c.nodes[p[1]].shape_hash
                       /\ v2[3] = c.nodes[p[2]].shape_hash

(***************************************************************************)
(* compute_shape_hash called on two inputs (helpers.py:31-37).             *)
(***************************************************************************)
MaxSliceLen == 4       \* bytes of a source slice
MaxChildren == 1       \* child digests of a node

SeqsUpTo(S, n) == UNION {[1..k -> S] : k \in 0..n}

ShapeTypes == {"a", "b"}

\* digests a child can have
ShapeDigests == {compute_shape_hash("a", <<>>, <<>>)}

\* bytes a source slice can hold; a file can spell out a digest
ShapeSymbols == {Sym("x"), Sym("|"), Sym("C")} \cup ShapeDigests

ShapeInputs ==
    [node_type : ShapeTypes,
     source_slice : SeqsUpTo(ShapeSymbols, MaxSliceLen),
     child_hashes : SeqsUpTo(ShapeDigests, MaxChildren)]

\* _walk hashes one node (postgres.py:56-58)
ShapeFirst ==
    /\ call = NoCall
    /\ \E a \in ShapeInputs :
          call' = [op |-> "shape1", a |-> a,
                   ha |-> compute_shape_hash(a.node_type, a.source_slice, a.child_hashes)]
    /\ UNCHANGED ingestVars

\* _walk hashes another node
ShapeSecond ==
    /\ call.op = "shape1"
    /\ \E b \in ShapeInputs :
          call' = [op |-> "shape2", a |-> call.a, ha |-> call.ha, b |-> b,
                   hb |-> compute_shape_hash(b.node_type, b.source_slice, b.child_hashes)]
    /\ UNCHANGED ingestVars

ShapeNext == ShapeFirst \/ ShapeSecond

ShapeSpec == Rest /\ [][ShapeNext]_vars

\* C12: the framing of compute_shape_hash is injective.  Two calls that
\* return the same digest were given the same node type, the same source
\* slice and the same ordered child digests.
ShapeFramingInjective ==
    call.op = "shape2" =>
        (call.ha = call.hb => call.a = call.b)

(***************************************************************************)
(* make_span_key called on two nodes (helpers.py:27-28).                   *)
(***************************************************************************)
MaxKeyPartLen == 2     \* characters of a file_uuid and of a node type

SeqsFromTo(S, m, n) == UNION {[1..k -> S] : k \in m..n}

\* characters of the file_uuid strings the callers pass: str(uuid.uuid4())
\* and the ids of the tests, hex digits and letters, never a colon
SpanUuids == SeqsFromTo({"a", "1"}, 1, MaxKeyPartLen)

\* characters of node types: the parser also emits the anonymous tokens
\* ":" and "::" and types that end in digits
SpanTypes == SeqsFromTo({":", "1"}, 1, MaxKeyPartLen)

\* byte offsets with one and with two digits
SpanOffsets == {0, 1, 11}

SpanInputs ==
    {x \in [file_uuid : SpanUuids, ntype : SpanTypes,
            start_byte : SpanOffsets, end_byte : SpanOffsets] :
        x.start_byte <= x.end_byte}

\* _walk keys one node (postgres.py:56)
SpanFirst ==
    /\ call = NoCall
    /\ \E a \in SpanInputs :
          call' = [op |-> "span1", a |-> a,
                   ka |-> make_span_key(a.file_uuid, a.ntype, a.start_byte, a.end_byte)]
    /\ UNCHANGED ingestVars

\* _walk keys another node
SpanSecond ==
    /\ call.op = "span1"
    /\ \E b \in SpanInputs :
          call' = [op |-> "span2", a |-> call.a, ka |-> call.ka, b |-> b,
                   kb |-> make_span_key(b.file_uuid, b.ntype, b.start_byte, b.end_byte)]
    /\ UNCHANGED ingestVars

SpanNext == SpanFirst \/ SpanSecond

SpanSpec == Rest /\ [][SpanNext]_vars

\* C13: make_span_key is injective.  Two calls that return the same
\* span_key were given the same (file_uuid, node_type, start_byte,
\* end_byte), also for node types that contain the delimiter.
SpanKeyInjective ==
    call.op = "span2" =>
        (call.ka = call.kb => call.a = call.b)

\* two different nodes, one of a type made of colons, whose keys have the
\* same characters in another order
SpanKeyWitness ==
    /\ call.op = "span2"
    /\ call.a # call.b
    /\ call.a.ntype = <<":", "1">>
    /\ call.b.ntype = <<"1", ":">>
    /\ call.a.file_uuid = call.b.file_uuid
    /\ call.a.start_byte = 1 /\ call.a.end_byte = 1
    /\ call.b.start_byte = 1 /\ call.b.end_byte = 1
    /\ Len(call.ka) = Len(call.kb)

(***************************************************************************)
(* The free-form Cypher interfaces (api/routes/cypher.py,                  *)
(* api/routes/query.py, mcp/server.py).  A query is a sequence of          *)
(* characters.                                                             *)
(***************************************************************************)
MaxQueryLen == 5       \* characters of a submitted query

QueryChars == {"s", "E", "T", "d", "R", "O", "P", " ", "_"}

Queries == SeqsUpTo(QueryChars, MaxQueryLen)

\* the alternatives of _WRITE_PATTERN (cypher.py:14)
WriteKeywords ==
    { <<"C", "R", "E", "A", "T", "E">>, <<"S", "E", "T">>,
      <<"D", "E", "L", "E", "T", "E">>, <<"D", "E", "T", "A", "C", "H">>,
      <<"M", "E", "R", "G", "E">>, <<"R", "E", "M", "O", "V", "E">>,
      <<"D", "R", "O", "P">>, <<"A", "L", "T", "E", "R">> }

\* re.IGNORECASE: a character and a pattern letter match when they have the
\* same upper case
Upper(c) == IF c = "s" THEN "S" ELSE IF c = "d" THEN "D" ELSE c

\* \w of a str pattern: letters, digits and the underscore
IsWordChar(c) == c # " "

\* \b at the position between q[p] and q[p+1]: exactly one side is a word
\* character; the two ends of the string count as non-word
WordAt(q, p) == p >= 1 /\ p <= Len(q) /\ IsWordChar(q[p])

\* a pattern without the two \b
WordBoundaryAlways(q, p) == TRUE

WordBoundary(q, p) == WordAt(q, p) # WordAt(q, p + 1)

CaselessAt(q, p, k) ==
    /\ p + Len(k) - 1 <= Len(q)
    /\ \A i \in 1..Len(k) : Upper(q[p + i - 1]) = k[i]

\* _WRITE_PATTERN.search(query) finds a match
_WRITE_PATTERN_search(q) ==
    \E p \in 1..Len(q) : \E k \in WriteKeywords :
        /\ WordBoundary(q, p - 1)
        /\ CaselessAt(q, p, k)
        /\ WordBoundary(q, p + Len(k) - 1)

\* InMemoryGraphDatabase.fetch_cypher / PostgresGraphDatabase.fetch_cypher
\* receive the query; the rows are the backend's answer
FetchCypher(q) == [fetched |-> <<q>>, rows |-> "rows"]

\* POST /query/cypher of the application (cypher.py:17-27)
CypherRoute ==
    /\ call = NoCall
    /\ \E q \in Queries :
          call' = IF _WRITE_PATTERN_search(q)
                  THEN [op |-> "cypher_route", query |-> q, status |-> 400,
                        fetched |-> <<>>, rows |-> "none"]
                  ELSE [op |-> "cypher_route", query |-> q, status |-> 200]
                           @@ FetchCypher(q)
    /\ UNCHANGED ingestVars

\* POST /query/cypher of the query router (query.py:69-76)
QueryRoute ==
    /\ call = NoCall
    /\ \E q \in Queries :
          call' = [op |-> "query_route", query |-> q, status |-> 200]
                      @@ FetchCypher(q)
    /\ UNCHANGED ingestVars

\* the cypher tool of the MCP server (server.py:72-77)
McpCypher ==
    /\ call = NoCall
    /\ \E q \in Queries :
          call' = [op |-> "mcp_cypher", query |-> q, status |-> 200]
                      @@ FetchCypher(q)
    /\ UNCHANGED ingestVars

CypherNext == CypherRoute \/ QueryRoute \/ McpCypher

CypherSpec == Rest /\ [][CypherNext]_vars

\* the maximal runs of word characters of a query, in upper case
WholeWords(q) ==
    { [i \in 1..(b - a + 1) |-> Upper(q[a + i - 1])] :
        <<a, b>> \in { w \in (1..Len(q)) \X (1..Len(q)) :
                          /\ w[1] <= w[2]
                          /\ \A i \in w[1]..w[2] : q[i] # " "
                          /\ (w[1] = 1 \/ q[w[1] - 1] = " ")
                          /\ (w[2] = Len(q) \/ q[w[2] + 1] = " ") } }

HasWriteWord(q) == WholeWords(q) \cap WriteKeywords # {}

\* C14: the read-only endpoint answers 400 without rows, and without
\* calling the backend, for every query that has one of the write keywords
\* as a whole word in any letter case, and hands every other query to the
\* backend unchanged.
ReadOnlyGuard ==
    call.op = "cypher_route" =>
        IF HasWriteWord(call.query)
        THEN call.status = 400 /\ call.fetched = <<>> /\ call.rows = "none"
        ELSE call.status = 200 /\ call.fetched = <<call.query>>

\* a keyword in mixed case, between two spaces, was rejected
ReadOnlyGuardRejects ==
    /\ call.op = "cypher_route"
    /\ call.query = <<" ", "s", "E", "T", " ">>
    /\ call.status = 400

\* C15: every interface that takes a free-form Cypher query from an
\* external caller applies the write-keyword guard before fetch_cypher, so
\* a query the guard classifies as a write never reaches the backend.
GuardOnEveryInterface ==
    call.op \in {"cypher_route", "query_route", "mcp_cypher"} =>
        (_WRITE_PATTERN_search(call.query) => call.fetched = <<>>)

(***************************************************************************)
(* Cursors (api/pagination.py).  A str is a sequence of code points, a     *)
(* bytes object a sequence of integers below 256.                          *)
(***************************************************************************)
RECURSIVE Concat(_)
Concat(seqs) == IF seqs = <<>> THEN <<>> ELSE Head(seqs) \o Concat(Tail(seqs))

\* one digit of '{0:04x}'
HexDigit(d) == IF d < 10 THEN 48 + d ELSE 87 + d

Hex4(n) == << HexDigit((n \div 4096) % 16), HexDigit((n \div 256) % 16),
              HexDigit((n \div 16) % 16), HexDigit(n % 16) >>

\* an encoder that escapes no ASCII character: the quote, the backslash
\* and the control characters are copied
EscapeNone(c) ==
    IF c < 128 THEN <<c>>
    ELSE IF c >= 65536
    THEN <<92, 117>> \o Hex4(55296 + ((c - 65536) \div 1024))
             \o <<92, 117>> \o Hex4(56320 + ((c - 65536) % 1024))
    ELSE <<92, 117>> \o Hex4(c)

\* json.dumps with ensure_ascii (the default): one character of a string.
\* 34 is the quote, 92 the backslash, 117 the letter u.
EscapeChar(c) ==
    CASE c = 34 -> <<92, 34>>
      [] c = 92 -> <<92, 92>>
      [] c = 10 -> <<92, 110>>
      [] c = 13 -> <<92, 114>>
      [] c = 9  -> <<92, 116>>
      [] c = 8  -> <<92, 98>>
      [] c = 12 -> <<92, 102>>
      [] c >= 32 /\ c <= 126 /\ c # 34 /\ c # 92 -> <<c>>
      [] c >= 65536 ->
            <<92, 117>> \o Hex4(55296 + ((c - 65536) \div 1024))
                \o <<92, 117>> \o Hex4(56320 + ((c - 65536) % 1024))
      [] OTHER -> <<92, 117>> \o Hex4(c)

JsonString(chars) ==
    <<34>> \o Concat([k \in 1..Len(chars) |-> EscapeChar(chars[k])]) \o <<34>>

\* json.dumps({"s": s, "i": i}, separators=(",", ":"))
json_dumps(sort_value, id_value) ==
    <<123, 34, 115, 34, 58>> \o JsonString(sort_value)
        \o <<44, 34, 105, 34, 58>> \o JsonString(id_value) \o <<125>>

\* str.encode(): UTF-8.  A lone surrogate has no encoding.
IsSurrogate(c) == c >= 55296 /\ c <= 57343

Utf8Char(c) ==
    CASE c < 128 -> <<c>>
      [] c >= 128 /\ c < 2048 -> <<192 + (c \div 64), 128 + (c % 64)>>
      [] c >= 2048 /\ c < 65536 ->
            <<224 + (c \div 4096), 128 + ((c \div 64) % 64), 128 + (c % 64)>>
      [] OTHER ->
            <<240 + (c \div 262144), 128 + ((c \div 4096) % 64),
              128 + ((c \div 64) % 64), 128 + (c % 64)>>

Utf8Encode(text) ==
    IF \E k \in 1..Len(text) : IsSurrogate(text[k])
    THEN [exc |-> "UnicodeEncodeError"]
    ELSE IF \A k \in 1..Len(text) : text[k] < 128
    THEN [exc |-> "none", bytes |-> text]
    ELSE [exc |-> "none",
          bytes |-> Concat([k \in 1..Len(text) |-> Utf8Char(text[k])])]

\* the URL-safe base64 alphabet; 61 is the padding character
B64Char(v) ==
    CASE v < 26 -> 65 + v
      [] v >= 26 /\ v < 52 -> 97 + (v - 26)
      [] v >= 52 /\ v < 62 -> 48 + (v - 52)
      [] v = 62 -> 45
      [] OTHER -> 95

\* binascii.b2a_base64: four characters for every three bytes, padded
urlsafe_b64encode(bytes) ==
    LET n == Len(bytes)
        byte(k) == IF k <= n THEN bytes[k] ELSE 0
        char(j) ==
            LET g == 3 * ((j - 1) \div 4) IN
            CASE (j - 1) % 4 = 0 -> B64Char(byte(g + 1) \div 4)
              [] (j - 1) % 4 = 1 ->
                    B64Char((byte(g + 1) % 4) * 16 + byte(g + 2) \div 16)
              [] (j - 1) % 4 = 2 ->
                    IF g + 2 > n THEN 61
                    ELSE B64Char((byte(g + 2) % 16) * 4 + byte(g + 3) \div 64)
              [] OTHER -> IF g + 3 > n THEN 61 ELSE B64Char(byte(g + 3) % 64)
    IN  [j \in 1..(4 * ((n + 2) \div 3)) |-> char(j)]

\* encode_cursor (pagination.py:15-18); the payload is ASCII
encode_cursor(sort_value, id_value) ==
    urlsafe_b64encode(Utf8Encode(json_dumps(sort_value, id_value)).bytes)

\* the value of one character in the table of binascii.a2b_base64 after
\* urlsafe_b64decode's translation of "-" and "_"; 64 is "not in the table"
B64Val(c) ==
    CASE c >= 65 /\ c <= 90 -> c - 65
      [] c >= 97 /\ c <= 122 -> c - 97 + 26
      [] c >= 48 /\ c <= 57 -> c - 48 + 52
      [] c = 45 \/ c = 43 -> 62
      [] c = 95 \/ c = 47 -> 63
      [] OTHER -> 64

IsB64Data(c) == B64Val(c) < 64

\* binascii.a2b_base64 without strict_mode: characters outside the table
\* are skipped; quad_pos is the number of data characters read so far
\* modulo 4; a padding character that completes a quad (the first one
\* after three data characters, the second one after two) ends the input;
\* an incomplete quad at the end of the input is an error
QuadPos(data, k) == Cardinality({j \in 1..(k - 1) : IsB64Data(data[j])}) % 4

Pads(data, k) ==
    \E j \in 1..(k - 1) :
        /\ data[j] = 61
        /\ \A m \in (j + 1)..(k - 1) : ~IsB64Data(data[m])

PadStops(data) ==
    {k \in 1..Len(data) :
        /\ data[k] = 61
        /\ \/ QuadPos(data, k) = 3
           \/ QuadPos(data, k) = 2 /\ Pads(data, k)}

\* the data characters before the first stop, or all of them
DataChars(data, stops) ==
    IF stops = {} THEN SelectSeq(data, IsB64Data)
    ELSE SelectSeq(SubSeq(data, 1, (CHOOSE k \in stops : \A h \in stops : k <= h) - 1),
                   IsB64Data)

\* byte j of the output: three bytes from every four data characters
B64Bin(v, j) ==
    CASE (j - 1) % 3 = 0 ->
            B64Val(v[4 * ((j - 1) \div 3) + 1]) * 4
                + B64Val(v[4 * ((j - 1) \div 3) + 2]) \div 16
      [] (j - 1) % 3 = 1 ->
            (B64Val(v[4 * ((j - 1) \div 3) + 2]) % 16) * 16
                + B64Val(v[4 * ((j - 1) \div 3) + 3]) \div 4
      [] OTHER ->
            (B64Val(v[4 * ((j - 1) \div 3) + 3]) % 4) * 64
                + B64Val(v[4 * ((j - 1) \div 3) + 4])

B64Bytes(v, stopped) ==
    IF ~stopped /\ Len(v) % 4 # 0 THEN [exc |-> "binascii.Error"]
    ELSE [exc |-> "none",
          bytes |-> [j \in 1..(3 * (Len(v) \div 4)
                                + (IF Len(v) % 4 = 0 THEN 0 ELSE (Len(v) % 4) - 1))
                        |-> B64Bin(v, j)]]

A2bUpTo(data, stops) == B64Bytes(DataChars(data, stops), stops # {})

a2b_base64(data) == A2bUpTo(data, PadStops(data))

\* base64.urlsafe_b64decode(cursor.encode())
urlsafe_b64decode(bytes) == a2b_base64(bytes)

\* bytes.decode(): strict UTF-8, for ASCII bytes, two-byte sequences and the
\* bytes that start no sequence (the longer sequences are not drawn here)
RECURSIVE Utf8Decode(_, _, _)
Utf8Decode(bytes, k, out) ==
    IF k > Len(bytes) THEN [exc |-> "none", text |-> out]
    ELSE IF bytes[k] < 128 THEN Utf8Decode(bytes, k + 1, Append(out, bytes[k]))
    ELSE IF /\ bytes[k] >= 194 /\ bytes[k] <= 223 /\ k + 1 <= Len(bytes)
            /\ bytes[k + 1] >= 128 /\ bytes[k + 1] <= 191
    THEN Utf8Decode(bytes, k + 2,
                    Append(out, (bytes[k] - 192) * 64 + (bytes[k + 1] - 128)))
    ELSE [exc |-> "UnicodeDecodeError"]

bytes_decode(bytes) ==
    IF \A k \in 1..Len(bytes) : bytes[k] < 128
    THEN [exc |-> "none", text |-> bytes]
    ELSE Utf8Decode(bytes, 1, <<>>)

(***************************************************************************)
(* json.loads: the scanner of the standard library on text without white   *)
(* space.  A value is a record with a kind; a parse result is Bad or       *)
(* carries the value and the position after it.                            *)
(***************************************************************************)
Bad == [ok |-> FALSE]

At(t, p) == IF p >= 1 /\ p <= Len(t) THEN t[p] ELSE -1

HexVal(c) ==
    CASE c >= 48 /\ c <= 57 -> c - 48
      [] c >= 97 /\ c <= 102 -> c - 87
      [] c >= 65 /\ c <= 70 -> c - 55
      [] OTHER -> -1

IsHex4(t, p) == \A k \in 0..3 : HexVal(At(t, p + k)) >= 0

Uni(t, p) == HexVal(t[p]) * 4096 + HexVal(t[p + 1]) * 256
                 + HexVal(t[p + 2]) * 16 + HexVal(t[p + 3])

\* a \uXXXX escape whose value is a high surrogate, followed by one whose
\* value is a low surrogate, is read as one character
JoinsPair(t, p) ==
    /\ Uni(t, p) >= 55296 /\ Uni(t, p) <= 56319
    /\ At(t, p + 4) = 92 /\ At(t, p + 5) = 117
    /\ IsHex4(t, p + 6)
    /\ Uni(t, p + 6) >= 56320 /\ Uni(t, p + 6) <= 57343

SimpleEscape(e) ==
    CASE e = 34 -> 34 [] e = 92 -> 92 [] e = 47 -> 47 [] e = 98 -> 8
      [] e = 102 -> 12 [] e = 110 -> 10 [] e = 114 -> 13 [] e = 116 -> 9
      [] OTHER -> -1

\* py_scanstring from the character after the opening quote
RECURSIVE ScanString(_, _, _)
ScanString(t, p, acc) ==
    LET c == At(t, p) e == At(t, p + 1) IN
    CASE c = -1 \/ (c >= 0 /\ c < 32) -> Bad
      [] c = 34 -> [ok |-> TRUE, val |-> [kind |-> "str", chars |-> acc], end |-> p + 1]
      [] c = 92 /\ e = 117 ->
            IF ~IsHex4(t, p + 2) THEN Bad
            ELSE IF JoinsPair(t, p + 2)
            THEN ScanString(t, p + 12,
                     Append(acc, 65536 + (Uni(t, p + 2) - 55296) * 1024
                                       + (Uni(t, p + 8) - 56320)))
            ELSE ScanString(t, p + 6, Append(acc, Uni(t, p + 2)))
      [] c = 92 /\ e # 117 ->
            IF SimpleEscape(e) = -1 THEN Bad
            ELSE ScanString(t, p + 2, Append(acc, SimpleEscape(e)))
      [] OTHER -> ScanString(t, p + 1, Append(acc, c))

IsDigit(c) == c >= 48 /\ c <= 57

RECURSIVE DigitsEnd(_, _)
DigitsEnd(t, p) == IF IsDigit(At(t, p)) THEN DigitsEnd(t, p + 1) ELSE p

RECURSIVE ParseValue(_, _)
RECURSIVE ParseMembers(_, _, _)
RECURSIVE AfterKey(_, _, _)
RECURSIVE AfterMember(_, _, _, _)
RECURSIVE ParseItems(_, _, _)
RECURSIVE AfterItem(_, _, _)

\* JSONObject after the opening brace or after a comma: a key, a colon, a
\* value, and then a comma or the closing brace
ParseMembers(t, p, acc) ==
    IF At(t, p) # 34 THEN Bad ELSE AfterKey(t, ScanString(t, p + 1, <<>>), acc)

AfterKey(t, key, acc) ==
    IF ~key.ok THEN Bad
    ELSE IF At(t, key.end) # 58 THEN Bad
    ELSE AfterMember(t, key.val.chars, ParseValue(t, key.end + 1), acc)

AfterMember(t, name, v, acc) ==
    IF ~v.ok THEN Bad
    ELSE CASE At(t, v.end) = 44 ->
                 ParseMembers(t, v.end + 1, Append(acc, <<name, v.val>>))
           [] At(t, v.end) = 125 ->
                 [ok |-> TRUE,
                  val |-> [kind |-> "obj", members |-> Append(acc, <<name, v.val>>)],
                  end |-> v.end + 1]
           [] OTHER -> Bad

\* JSONArray after the opening bracket or after a comma
ParseItems(t, p, acc) == AfterItem(t, ParseValue(t, p), acc)

AfterItem(t, v, acc) ==
    IF ~v.ok THEN Bad
    ELSE CASE At(t, v.end) = 44 -> ParseItems(t, v.end + 1, Append(acc, v.val))
           [] At(t, v.end) = 93 ->
                 [ok |-> TRUE, val |-> [kind |-> "arr", items |-> Append(acc, v.val)],
                  end |-> v.end + 1]
           [] OTHER -> Bad

\* scan_once: 123 and 125 are the braces, 91 and 93 the brackets
ParseValue(t, p) ==
    LET c == At(t, p) IN
    CASE c = 34 -> ScanString(t, p + 1, <<>>)
      [] c = 123 ->
            IF At(t, p + 1) = 125
            THEN [ok |-> TRUE, val |-> [kind |-> "obj", members |-> <<>>], end |-> p + 2]
            ELSE ParseMembers(t, p + 1, <<>>)
      [] c = 91 ->
            IF At(t, p + 1) = 93
            THEN [ok |-> TRUE, val |-> [kind |-> "arr", items |-> <<>>], end |-> p + 2]
            ELSE ParseItems(t, p + 1, <<>>)
      [] c = 48 -> [ok |-> TRUE, val |-> [kind |-> "num", digits |-> <<48>>], end |-> p + 1]
      [] c >= 49 /\ c <= 57 ->
            [ok |-> TRUE,
             val |-> [kind |-> "num", digits |-> SubSeq(t, p, DigitsEnd(t, p) - 1)],
             end |-> DigitsEnd(t, p)]
      [] OTHER -> Bad

\* json.loads: one value and nothing after it
WholeText(t, r) ==
    IF ~r.ok THEN [exc |-> "JSONDecodeError"]
    ELSE IF r.end # Len(t) + 1 THEN [exc |-> "JSONDecodeError"]
    ELSE [exc |-> "none", value |-> r.val]

json_loads(t) == WholeText(t, ParseValue(t, 1))

\* payload[key]: a dict keeps the last member of a key and raises KeyError
\* without one; a list, a str and a number raise TypeError
GetItem(payload, key) ==
    IF payload.kind # "obj" THEN [exc |-> "TypeError"]
    ELSE LET hits == {k \in 1..Len(payload.members) : payload.members[k][1] = key} IN
         IF hits = {} THEN [exc |-> "KeyError"]
         ELSE [exc |-> "none",
               value |-> payload.members[CHOOSE k \in hits : \A h \in hits : h <= k][2]]

\* str(value): a str is returned as it is, a number as its digits, and a
\* container as its repr
RECURSIVE Repr(_)
RECURSIVE ReprItems(_)
RECURSIVE ReprMembers(_)
ReprItems(items) ==
    IF items = <<>> THEN <<>>
    ELSE Repr(Head(items))
             \o (IF Len(items) > 1 THEN <<44, 32>> ELSE <<>>) \o ReprItems(Tail(items))

ReprMembers(members) ==
    IF members = <<>> THEN <<>>
    ELSE <<39>> \o Head(members)[1] \o <<39, 58, 32>> \o Repr(Head(members)[2])
             \o (IF Len(members) > 1 THEN <<44, 32>> ELSE <<>>)
             \o ReprMembers(Tail(members))

Repr(v) ==
    CASE v.kind = "str" -> <<39>> \o v.chars \o <<39>>
      [] v.kind = "num" -> v.digits
      [] v.kind = "arr" -> <<91>> \o ReprItems(v.items) \o <<93>>
      [] OTHER -> <<123>> \o ReprMembers(v.members) \o <<125>>

Str(v) == IF v.kind = "str" THEN v.chars ELSE Repr(v)

\* the exception classes of the except clause (pagination.py:33) and their
\* subclasses
Caught ==
    {"ValueError", "KeyError", "UnicodeDecodeError", "UnicodeEncodeError",
     "binascii.Error", "JSONDecodeError"}

\* the body of the try block (pagination.py:31-32), one stage after the
\* other; a stage that raises ends the body
Returned2(s, i) ==
    IF s.exc # "none" THEN [exc |-> s.exc]
    ELSE IF i.exc # "none" THEN [exc |-> i.exc]
    ELSE [exc |-> "none", value |-> <<Str(s.value), Str(i.value)>>]

AfterLoads(payload) ==
    IF payload.exc # "none" THEN [exc |-> payload.exc]
    ELSE Returned2(GetItem(payload.value, <<115>>), GetItem(payload.value, <<105>>))

AfterDecode(txt) ==
    IF txt.exc # "none" THEN [exc |-> txt.exc] ELSE AfterLoads(json_loads(txt.text))

AfterB64decode(raw) ==
    IF raw.exc # "none" THEN [exc |-> raw.exc] ELSE AfterDecode(bytes_decode(raw.bytes))

AfterEncode(enc) ==
    IF enc.exc # "none" THEN [exc |-> enc.exc]
    ELSE AfterB64decode(urlsafe_b64decode(enc.bytes))

DecodeBody(cursor) == AfterEncode(Utf8Encode(cursor))

\* the except clause (pagination.py:33-34)
Reraise(r) == IF r.exc \in Caught THEN [exc |-> "InvalidCursorError"] ELSE r

\* decode_cursor (pagination.py:25-34)
decode_cursor(cursor) == Reraise(DecodeBody(cursor))

(***************************************************************************)
(* A cursor is made from a row and handed back by the client               *)
(* (pagination.py:15-34).                                                  *)
(***************************************************************************)
MaxCursorStrLen == 2   \* characters of a sort value and of an id

\* "a", the quote, the backslash, a high surrogate, a low surrogate and a
\* character outside the basic plane
CursorChars == {97, 34, 92, 55357, 56832, 128512}

CursorStrings == SeqsUpTo(CursorChars, MaxCursorStrLen)

EncodeCursor ==
    /\ call = NoCall
    /\ \E s \in CursorStrings, i \in CursorStrings :
          call' = [op |-> "encoded", s |-> s, i |-> i,
                   cursor |-> encode_cursor(s, i)]
    /\ UNCHANGED ingestVars

DecodeCursor ==
    /\ call.op = "encoded"
    /\ call' = [op |-> "decoded", s |-> call.s, i |-> call.i,
                cursor |-> call.cursor, result |-> decode_cursor(call.cursor)]
    /\ UNCHANGED ingestVars

CursorNext == EncodeCursor \/ DecodeCursor

CursorSpec == Rest /\ [][CursorNext]_vars

\* a high surrogate directly followed by a low surrogate
HasSurrogatePair(chars) ==
    \E k \in 1..(Len(chars) - 1) :
        /\ chars[k] >= 55296 /\ chars[k] <= 56319
        /\ chars[k + 1] >= 56320 /\ chars[k + 1] <= 57343

\* C16 as stated: decode_cursor(encode_cursor(s, i)) = (s, i) for all
\* strings s and i.
CursorRoundTripAll ==
    call.op = "decoded" =>
        call.result.exc = "none" /\ call.result.value = <<call.s, call.i>>

\* C16: decode_cursor(encode_cursor(s, i)) = (s, i) for all strings s and
\* i in which no high surrogate is directly followed by a low surrogate,
\* which every string with a UTF-8 encoding satisfies.
CursorRoundTrip ==
    (call.op = "decoded" /\ ~HasSurrogatePair(call.s) /\ ~HasSurrogatePair(call.i)) =>
        call.result.exc = "none" /\ call.result.value = <<call.s, call.i>>

\* a sort value with a quote and a character outside the basic plane and
\* an id of two lone surrogates came back unchanged
CursorRoundTripWitness ==
    /\ call.op = "decoded"
    /\ call.s = <<34, 128512>>
    /\ call.i = <<56832, 55357>>
    /\ call.result.exc = "none"
    /\ call.result.value = <<call.s, call.i>>

(***************************************************************************)
(* decode_cursor on what a client sends (pagination.py:25-34).             *)
(***************************************************************************)
MaxFragments == 4      \* pieces of a payload

\* pieces of payload bytes: the braces, the brackets, the two members, a
\* comma, a number and a byte that is no UTF-8
PayloadFragments ==
    { <<123>>, <<125>>, <<91>>, <<93>>, <<44>>, <<49>>, <<255>>,
      <<34, 115, 34, 58, 34, 97, 34>>,
      <<44, 34, 105, 34, 58, 34, 98, 34>> }

Payloads == {Concat(fs) : fs \in SeqsUpTo(PayloadFragments, MaxFragments)}

\* what the client does to the base64 text: nothing, drops the last
\* character, or puts a character outside the alphabet in front
Mangled(cursor, how) ==
    CASE how = "cut" -> SubSeq(cursor, 1, Len(cursor) - 1)
      [] how = "junk" -> <<33>> \o cursor
      [] OTHER -> cursor

DecodeSent ==
    /\ call = NoCall
    /\ \E p \in Payloads, how \in {"asis", "cut", "junk"} :
          LET cursor == Mangled(urlsafe_b64encode(p), how) IN
          call' = [op |-> "decode", cursor |-> cursor,
                   result |-> decode_cursor(cursor)]
    /\ UNCHANGED ingestVars

DecodeSpec == Rest /\ [][DecodeSent]_vars

\* what a cursor is the encoding of
ClassOfValue(v) ==
    IF v.kind # "obj" THEN "not an object"
    ELSE IF \A key \in {<<115>>, <<105>>} :
                \E k \in 1..Len(v.members) : v.members[k][1] = key
    THEN "object with s and i"
    ELSE "missing key"

ClassOfJson(payload) ==
    IF payload.exc # "none" THEN "invalid JSON" ELSE ClassOfValue(payload.value)

ClassOfText(txt) ==
    IF txt.exc # "none" THEN "not UTF-8" ELSE ClassOfJson(json_loads(txt.text))

ClassOfBytes(raw) ==
    IF raw.exc # "none" THEN "invalid base64" ELSE ClassOfText(bytes_decode(raw.bytes))

ClassOfEncoded(enc) ==
    IF enc.exc # "none" THEN "invalid base64"
    ELSE ClassOfBytes(urlsafe_b64decode(enc.bytes))

CursorClass(cursor) == ClassOfEncoded(Utf8Encode(cursor))

\* C17: decode_cursor raises InvalidCursorError, and no other exception,
\* for every input that is not the encoding of an object with the keys s
\* and i: invalid base64, bytes that are no UTF-8, invalid JSON, an object
\* that misses a key, and JSON that is not an object.
DecodeRaisesInvalidCursorError ==
    (call.op = "decode" /\ CursorClass(call.cursor) # "object with s and i") =>
        call.result.exc = "InvalidCursorError"

(***************************************************************************)
(* The file listing (postgres.py:415-453, memory.py:162-178,               *)
(* api/data_layer.py:54-130, api/middleware.py:16-72).  Paths and ids are  *)
(* sequences of code points; a row is <<id, full_path>>.                   *)
(***************************************************************************)
MaxStoredFiles == 4    \* ids a store can hold
MaxPageSize == 2       \* page[size] of a request, and limit of a listing

\* "/a" and "/b"
PagePaths == {<<47, 97>>, <<47, 98>>}

\* one hexadecimal digit of a UUID: 0, 9, a, f, 3, c
PageIdDigits == <<0, 9, 10, 15, 3, 12>>

PageIds == {<<PageIdDigits[k]>> : k \in 1..MaxStoredFiles}

\* str(uuid) and id::text: lower-case hexadecimal
IdText(id) == [k \in 1..Len(id) |-> HexDigit(id[k])]

\* comparison of two str, of two text values under the C collation and of
\* two uuid values: the first position that differs decides, a proper
\* prefix is smaller
SeqLess(a, b) ==
    \E k \in 1..Len(b) :
        /\ \A j \in 1..(k - 1) : j <= Len(a) /\ a[j] = b[j]
        /\ (k > Len(a) \/ a[k] < b[k])

\* comparison of two tuples, and of two SQL rows
PairLess(a, b) == SeqLess(a[1], b[1]) \/ (a[1] = b[1] /\ SeqLess(a[2], b[2]))

\* a filter on the path alone
IsAfterByPath(key, after) == SeqLess(after[1], key[1])

\* (full_path, id) > (after_path, after_id)
IsAfter(key, after) == PairLess(after, key)

\* after_path and after_id, or before_path and before_id, are None
NoCursor == <<>>

\* the elements of a set of <<full_path, id>> keys in ascending order
SortKeys(S) ==
    [j \in 1..Cardinality(S) |->
        CHOOSE x \in S : Cardinality({y \in S : PairLess(y, x)}) = j - 1]

FirstN(s, n) == SubSeq(s, 1, IF n < Len(s) THEN n ELSE Len(s))

LastN(s, n) == SubSeq(s, IF n < Len(s) THEN Len(s) - n + 1 ELSE 1, Len(s))

\* PostgresGraphDatabase.list_files_cursor: the WHERE clause compares
\* id::text, ORDER BY full_path, id orders by the uuid, and the rows come
\* back with str(id)
PgListFilesCursor(table, limit, after, before) ==
    LET where ==
            IF after # NoCursor
            THEN {f \in table : IsAfter(<<f.full_path, IdText(f.id)>>, after)}
            ELSE IF before # NoCursor
            THEN {f \in table : PairLess(<<f.full_path, IdText(f.id)>>, before)}
            ELSE table
        ordered == SortKeys({<<f.full_path, f.id>> : f \in where})
        selected == IF after = NoCursor /\ before # NoCursor
                    THEN LastN(ordered, limit) ELSE FirstN(ordered, limit)
    IN  [j \in 1..Len(selected) |-> <<IdText(selected[j][2]), selected[j][1]>>]

\* the elements of a sorted list that pass a test, in the order of the list
Filtered(sorted, passing) ==
    SortKeys({sorted[j] : j \in {i \in 1..Len(sorted) : sorted[i] \in passing}})

\* InMemoryGraphDatabase.list_files_cursor
MemListFilesCursor(records, limit, after, before) ==
    LET keys == {<<r.full_path, r.file_id>> : r \in records}
        all_files == SortKeys(keys)
        selected ==
            IF after # NoCursor
            THEN Filtered(all_files, {r \in keys : IsAfter(r, after)})
            ELSE IF before # NoCursor
            THEN LastN(Filtered(all_files, {r \in keys : PairLess(r, before)}), limit)
            ELSE all_files
        page == FirstN(selected, limit)
    IN  [j \in 1..Len(page) |-> <<page[j][2], page[j][1]>>]

\* after and before are NoCursor or <<path, id>>
list_files_cursor(limit, after, before) ==
    IF backend = "pg" THEN PgListFilesCursor(files, limit, after, before)
    ELSE MemListFilesCursor(mem.files, limit, after, before)

\* the keys of the stored file records, ids as text
StoredKeys ==
    IF backend = "pg" THEN {<<f.full_path, IdText(f.id)>> : f \in files}
    ELSE {<<r.full_path, r.file_id>> : r \in mem.files}

\* _persist_file inserts a row for a new (path, content); the id is fresh
StoreFile ==
    /\ call = NoCall
    /\ \E path \in PagePaths, id \in PageIds :
          /\ \A key \in StoredKeys : key[2] # IdText(id)
          /\ IF backend = "pg"
             THEN /\ files' = files \cup {[id |-> id, full_path |-> path,
                                           content_hash |-> ContentHash(IdText(id))]}
                  /\ mem' = mem
             ELSE /\ mem' = [mem EXCEPT !.files = @ \cup
                                {[file_id |-> IdText(id), full_path |-> path,
                                  content_hash |-> ContentHash(IdText(id))]}]
                  /\ files' = files
    /\ UNCHANGED <<ensureVars, temp, call, backend, head, db, tx, pc, job, started, failures>>

\* the first call of a listing loop: no cursor
ListFirst ==
    /\ call = NoCall
    /\ \E limit \in 1..MaxPageSize :
          LET rows == list_files_cursor(limit, NoCursor, NoCursor) IN
          call' = [op |-> "list", limit |-> limit, rows |-> rows, seen |-> rows]
    /\ UNCHANGED ingestVars

\* the next call: after = (full_path, id) of the last row returned
ListNext ==
    /\ call.op = "list"
    /\ call.rows # <<>>
    /\ LET last == call.rows[Len(call.rows)]
           rows == list_files_cursor(call.limit, <<last[2], last[1]>>, NoCursor)
       IN  call' = [call EXCEPT !.rows = rows, !.seen = @ \o rows]
    /\ UNCHANGED ingestVars

ListSorted(rows) ==
    \A j \in 1..(Len(rows) - 1) :
        PairLess(<<rows[j][2], rows[j][1]>>, <<rows[j + 1][2], rows[j + 1][1]>>)

\* C18: a listing loop that starts without a cursor and passes the last
\* row of every page as after, until a page is empty, has returned every
\* stored file record exactly once, in ascending (full_path, id) order, for
\* every limit and every set of records.
ForwardPaginationComplete ==
    (call.op = "list" /\ call.rows = <<>>) =>
        /\ ListSorted(call.seen)
        /\ {<<call.seen[j][2], call.seen[j][1]>> : j \in 1..Len(call.seen)} = StoredKeys

\* a loop over three or more records, two of them with the same path, has
\* ended
ForwardPaginationWitness ==
    /\ call.op = "list"
    /\ call.rows = <<>>
    /\ Len(call.seen) >= 3
    /\ \E j \in 1..(Len(call.seen) - 1) : call.seen[j][2] = call.seen[j + 1][2]

(***************************************************************************)
(* GET /files (data_layer.py:54-130, middleware.py:43-60).                 *)
(***************************************************************************)
\* a query parameter that the request does not have
Absent == <<-1>>

\* "if after_cursor:" is true for a parameter that is present and not empty
Truthy(param) == param # Absent /\ param # <<>>

\* parse_page_params: page[size] clamped to 1..1000
PageSize(size_raw) ==
    IF size_raw < 1 THEN 1 ELSE IF size_raw > 1000 THEN 1000 ELSE size_raw

\* a listing that asks for the page only
FetchLimitExact(size) == size

\* one row more than the page, to see whether more rows exist
FetchLimit(size) == size + 1

\* links.next and links.prev: no link, or the request the link stands for
NoLink == <<>>

\* get_collection decodes page[after], or else page[before]
DecodedCursor(request) ==
    IF Truthy(request.after) THEN decode_cursor(request.after)
    ELSE IF Truthy(request.before) THEN decode_cursor(request.before)
    ELSE [exc |-> "none", value |-> NoCursor]

\* the flags of get_collection and the links CursorPaginationMiddleware
\* writes from them
Respond(request, size, page, has_next, has_prev) ==
    [status |-> "200", data |-> page,
     next |-> IF has_next /\ page # <<>>
              THEN <<[size |-> size,
                      after |-> encode_cursor(page[Len(page)][2], page[Len(page)][1]),
                      before |-> Absent]>>
              ELSE NoLink,
     prev |-> IF has_prev /\ page # <<>>
              THEN <<[size |-> size, after |-> Absent,
                      before |-> encode_cursor(page[1][2], page[1][1])]>>
              ELSE NoLink]

Paged(request, size, rows) ==
    Respond(request, size, FirstN(rows, size),
            IF Truthy(request.before) THEN Len(FirstN(rows, size)) > 0
            ELSE Len(rows) > size,
            IF Truthy(request.before) THEN Len(rows) > size
            ELSE request.after # Absent /\ Len(FirstN(rows, size)) > 0)

Queried(request, size, decoded) ==
    IF decoded.exc # "none"
    THEN [status |-> decoded.exc, data |-> <<>>, next |-> NoLink, prev |-> NoLink]
    ELSE Paged(request, size,
               list_files_cursor(
                   FetchLimit(size),
                   IF Truthy(request.after) THEN decoded.value ELSE NoCursor,
                   IF ~Truthy(request.after) /\ Truthy(request.before)
                   THEN decoded.value ELSE NoCursor))

\* FileDataLayer.get_collection and CursorPaginationMiddleware.dispatch
GetCollection(request) ==
    Queried(request, PageSize(request.size), DecodedCursor(request))

\* what a client puts into page[after]: nothing, an empty value, or the
\* cursor of some (path, id)
SentCursors ==
    {Absent, <<>>} \cup {encode_cursor(p, IdText(id)) : p \in PagePaths, id \in PageIds}

\* a client requests a page
GetFiles ==
    /\ call = NoCall
    /\ \E size_raw \in 0..MaxPageSize, after \in SentCursors :
          LET request == [size |-> size_raw, after |-> after, before |-> Absent] IN
          call' = [op |-> "page", request |-> request, via |-> "sent",
                   origin |-> <<>>] @@ GetCollection(request)
    /\ UNCHANGED ingestVars

\* the client follows links.next
FollowNext ==
    /\ call.op = "page"
    /\ call.next # NoLink
    /\ call' = [op |-> "page", request |-> call.next[1], via |-> "next",
                origin |-> <<call.data>>] @@ GetCollection(call.next[1])
    /\ UNCHANGED ingestVars

\* the client follows links.prev; origin keeps the page whose next link led
\* to the page the client leaves
FollowPrev ==
    /\ call.op = "page"
    /\ call.prev # NoLink
    /\ call' = [op |-> "page", request |-> call.prev[1], via |-> "prev",
                origin |-> IF call.via = "next" THEN call.origin ELSE <<>>]
                   @@ GetCollection(call.prev[1])
    /\ UNCHANGED ingestVars

PageNext == StoreFile \/ ListFirst \/ ListNext \/ GetFiles \/ FollowNext \/ FollowPrev

PageSpec == Init /\ [][PageNext]_vars

\* C19: following a page's next link and then the prev link of the page
\* reached returns exactly the original page, for any number of stored
\* files.
NextThenPrevReturns ==
    (call.op = "page" /\ call.via = "prev" /\ call.origin # <<>>) =>
        call.data = call.origin[1]

Forward == call.op = "page" /\ call.status = "200" /\ call.via \in {"sent", "next"}

RowKey(row) == <<row[2], row[1]>>

\* a stored record sorts after the last row of the page
MoreAfterPage ==
    /\ call.data # <<>>
    /\ \E key \in StoredKeys : PairLess(RowKey(call.data[Len(call.data)]), key)

\* no stored record sorts before the first row of the page
IsFirstPage ==
    /\ call.data # <<>>
    /\ \A key \in StoredKeys : ~PairLess(key, RowKey(call.data[1]))

TempFileRemoved ==
    \A f \in temp : \E t \in Tasks : pc[t] # "idle" /\ job[t].temp_path = f

\* an inline-code ingest stored its FileRecord, failed later, and has raised
TempFileRemovedWitness ==
    /\ backend = "pg"
    /\ started = 1
    /\ failures = 1
    /\ pc[1] = "idle"
    /\ \E r \in files : r.full_path = write_temp_code_file("python", 1)
    /\ temp = {}

\* C22: cancellation.  While an ingest transaction is open its statements
\* leave the committed graph and the guard table alone; a cancellation at
\* any suspension point leaves the committed graph, the guard table and the
\* files table as they are and discards the rows of the transaction, so
\* that only a FileRecord committed before survives; and when the cancelled
\* call has raised, the temporary file of an inline-code ingest is gone.
CancelRollsBack ==
    [][\A t \in Tasks :
          /\ (pc[t] \in TxSteps /\ pc'[t] \in TxSteps /\ pc'[t] # pc[t]) => db' = db
          /\ (/\ pc[t] \in SuspensionPoints
              /\ pc'[t] = "failed"
              /\ job'[t].exc = "CancelledError")
                 => /\ db' = db
                    /\ files' = files
                    /\ tx'[t] = EmptyBuf
          /\ (/\ pc[t] = "failed"
              /\ job[t].exc = "CancelledError"
              /\ pc'[t] = "idle")
                 => job[t].temp_path \notin temp']_vars

\* an inline-code ingest was cancelled at its last await, after every batch
\* had run: the graph is empty, the FileRecord of the temporary file stays
CancelRollsBackWitness ==
    \E t \in Tasks :
        /\ pc[t] = "failed"
        /\ job[t].exc = "CancelledError"
        /\ job[t].failed_at = "commit"
        /\ job[t].temp_path # ""
        /\ db = EmptyDb
        /\ tx[t] = EmptyBuf
        /\ \E r \in files : r.id = job[t].file_uuid /\ r.full_path = job[t].temp_path

\* the FileRecord and FileVersion of a finished ingest, as a query reads them
RecordsVisible(j) ==
    IF backend = "pg"
    THEN /\ \E r \in files : r.id = j.file_uuid /\ r.full_path = Resolve(j.path)
         /\ \E f \in db.fvs :
               /\ f.id = j.file_version_id
               /\ f.commit_id = j.commit_id
               /\ f.file_uuid = j.file_uuid
    ELSE /\ \E r \in mem.files : r.file_id = j.file_uuid /\ r.full_path = Resolve(j.path)
         /\ \E i \in 1..Len(mem.file_versions) :
               /\ mem.file_versions[i].version_id = j.file_version_id
               /\ mem.file_versions[i].commit_id = j.commit_id
               /\ mem.file_versions[i].file_uuid = j.file_uuid

\* the PARENT_OF edge of the k-th (parent, child, order) pair of the tree
ParentEdgeVisible(j, k) ==
    IF backend = "pg"
    THEN \E e \in db.pedges :
            /\ e.parent_id = AgeEdgeTriples(j)[k][1]
            /\ e.child_id = AgeEdgeTriples(j)[k][2]
    ELSE LET c == Collected(j)
             p == c.nodes[c.edges[k][1] + 1]
             n == c.nodes[c.edges[k][2] + 1]
         IN  \E e \in mem.parent_edges, v \in mem.ast_nodes, w \in mem.ast_nodes :
                /\ v.node_id = e[1]
                /\ w.node_id = e[2]
                /\ e[3] = c.edges[k][3]
                /\ (v.span_key = p.span_key \/ v.shape_hash = p.shape_hash)
                /\ (w.span_key = n.span_key \/ w.shape_hash = n.shape_hash)

\* C23: read-your-writes.  When run_ingest has returned for a file, the
\* committed state that every later query reads holds that ingest's
\* FileRecord and FileVersion, the vertex of each node of the tree with its
\* OCCURS_IN edge, and the PARENT_OF edge of each parent-child pair: the
\* ingest transaction commits before run_ingest returns.
IngestVisibleOnReturn ==
    \A t \in Tasks :
        pc[t] = "done" =>
            /\ RecordsVisible(job[t])
            /\ \A k \in 1..Len(Collected(job[t]).nodes) :
                  IF backend = "pg" THEN OccursInPg(job[t], k)
                  ELSE OccursInMem(job[t], k)
            /\ \A k \in 1..Len(Collected(job[t]).edges) :
                  ParentEdgeVisible(job[t], k)

\* a Postgres ingest has returned while another task's transaction is open:
\* the rows of the first are committed, those of the second are not
IngestVisibleWitness ==
    \E t \in Tasks, u \in Tasks :
        /\ backend = "pg"
        /\ pc[t] = "done"
        /\ pc[u] \in TxSteps
        /\ tx[u].nodes # {}
        /\ tx[t] = EmptyBuf
        /\ \E f \in db.fvs : f.id = job[t].file_version_id

\* C24: missing input.  A run_ingest call given neither a path nor inline
\* code raises ValueError, with or without a language, before it stores a
\* file record, writes a temporary file or touches the graph.
MissingInputRaisesValueError ==
    \A t \in Tasks :
        (pc[t] # "idle" /\ job[t].args[1] = "" /\ job[t].args[2] = NoCode)
            => /\ pc[t] = "raised"
               /\ job[t].exc = "ValueError"
               /\ job[t].temp_path = ""
               /\ job[t].file_uuid = None

\* C25: canonical path.  run_ingest hands the resolved absolute path to
\* persist_file and to persist_file_ast alike: the path of every stored
\* FileVersion is the full_path of the FileRecord it belongs to, so an
\* ingest by a relative path and one by the absolute path of the same file
\* address the same FileVersion key.
FileVersionPathIsFullPath ==
    /\ \A f \in db.fvs :
          \E r \in files : r.id = f.file_uuid /\ r.full_path = f.path
    /\ \A i \in 1..Len(mem.file_versions) :
          \E r \in mem.files :
             /\ r.file_id = mem.file_versions[i].file_uuid
             /\ r.full_path = mem.file_versions[i].path

(***************************************************************************)
(* Version chain (postgres.py:231-239).                                    *)
(***************************************************************************)
\* the committed FileVersion vertex with the given id
FvOf(d, id) == CHOOSE f \in d.fvs : f.id = id

\* a NEXT_VERSION path of at most n edges leads from vertex a to vertex b
RECURSIVE NvReach(_, _, _, _)
NvReach(d, a, b, n) ==
    /\ n > 0
    /\ \E e \in d.nvedges :
          e.prev = a /\ (e.cur = b \/ NvReach(d, e.cur, b, n - 1))

\* NEXT_VERSION edges join FileVersions of one path, the earlier one at the
\* commit before, and no path of edges returns to its start
VersionChain(d) ==
    /\ \A e \in d.nvedges :
          /\ \E f \in d.fvs : f.id = e.prev
          /\ \E f \in d.fvs : f.id = e.cur
          /\ FvOf(d, e.prev).path = FvOf(d, e.cur).path
          /\ FvOf(d, e.prev).commit_id = PrevCommit(FvOf(d, e.cur).commit_id)
    /\ \A f \in d.fvs : ~NvReach(d, f.id, f.id, Cardinality(d.nvedges))

\* every edge an ingest adds starts at a FileVersion that was committed
\* before that ingest
AddedFromStored(d, e) ==
    \A x \in e.nvedges \ d.nvedges : \E f \in d.fvs : f.id = x.prev

file_version_links(m) == <<>>

\* C27: in-memory version history.  When two different contents were
\* ingested at one path, one after the other, the in-memory backend holds
\* two FileVersions and exactly one version link, from the first to the
\* second, carrying that path.
MemVersionHistoryLinked ==
    LET v == mem.file_versions
    IN  (/\ backend = "mem"
         /\ Len(v) = 2
         /\ v[1].path = v[2].path
         /\ v[1].file_uuid # v[2].file_uuid)
            => file_version_links(mem) =
                   <<[previous_file_version_id |-> v[1].version_id,
                      next_file_version_id |-> v[2].version_id,
                      path |-> v[2].path]>>

\* the FileVersions of m with the key of the ingest j
MemVersionsOf(m, j) ==
    {i \in 1..Len(m.file_versions) :
        /\ m.file_versions[i].commit_id = j.commit_id
        /\ m.file_versions[i].file_uuid = j.file_uuid
        /\ m.file_versions[i].path = j.path}

\* C28: repeated persist_file_ast in the in-memory backend.  A call with a
\* (commit_id, file_uuid, path) and tree that were persisted before leaves
\* one FileVersion for that key and leaves file_versions, ast_nodes,
\* parent_edges and occurrences at the size they had.
MemRepeatedPersistIsNoop ==
    [][\A t \in Tasks :
          (/\ backend = "mem"
           /\ pc[t] = "mem_ast" /\ pc'[t] = "done"
           /\ MemVersionsOf(mem, job[t]) # {})
              => /\ Cardinality(MemVersionsOf(mem', job[t])) = 1
                 /\ Len(mem'.file_versions) = Len(mem.file_versions)
                 /\ Cardinality(mem'.ast_nodes) = Cardinality(mem.ast_nodes)
                 /\ Cardinality(mem'.parent_edges) = Cardinality(mem.parent_edges)
                 /\ Len(mem'.occurrences) = Len(mem.occurrences)]_vars


(***************************************************************************)
(* ensure_graph (cypher.py:12-43) and its two callers, run by concurrent   *)
(* tasks against a database whose catalog is still empty.  Every statement *)
(* is a suspension point.  The age extension is installed, so CREATE       *)
(* EXTENSION IF NOT EXISTS and LOAD succeed and write nothing.             *)
(* Postgres keeps ag_graph.name and the relation name unique: an insert    *)
(* that meets another transaction's uncommitted row of the same name waits *)
(* for that transaction to end, and one that meets a committed row raises. *)
(***************************************************************************)
MaxEnsures == 3        \* ensure_ready calls and first ingests started

\* another transaction holds an uncommitted row of that kind
OtherHoldsGraph(t) == \E u \in Tasks \ {t} : ens[u].graph > 0

OtherHoldsTable(t) == \E u \in Tasks \ {t} : ens[u].table > 0

\* postgres.py:384-386  ensure_ready(): await ensure_graph(engine, GRAPH_NAME)
EnsureReady(t) ==
    /\ ens[t].pc = "idle"
    /\ started < MaxEnsures
    /\ started' = started + 1
    /\ ens' = [ens EXCEPT ![t] = [IdleEnsure EXCEPT !.pc = "begin",
                                                    !.via = "ensure_ready"]]
    /\ UNCHANGED <<catalog, _graph_ensured, call, backend, head, files, db, tx,
                   mem, pc, job, failures, temp>>

\* postgres.py:193-196  _persist_file_ast_to_age reads the flag and calls
\* ensure_graph only when it is false
IngestEnsure(t) ==
    /\ ens[t].pc = "idle"
    /\ started < MaxEnsures
    /\ started' = started + 1
    /\ ens' = [ens EXCEPT ![t] =
                  [IdleEnsure EXCEPT !.pc = IF _graph_ensured THEN "returned"
                                            ELSE "begin",
                                     !.via = "ingest"]]
    /\ UNCHANGED <<catalog, _graph_ensured, call, backend, head, files, db, tx,
                   mem, pc, job, failures, temp>>

\* cypher.py:13-20  engine.begin(), CREATE EXTENSION IF NOT EXISTS, LOAD,
\* SET search_path
CreateExtension(t) ==
    /\ ens[t].pc = "begin"
    /\ ens' = [ens EXCEPT ![t].pc = "count"]
    /\ UNCHANGED <<catalog, _graph_ensured, call, runVars>>

\* cypher.py:22-26  SELECT count(*) FROM ag_graph WHERE name = :name, read
\* committed plus the transaction's own rows
SelectCount(t) ==
    /\ ens[t].pc = "count"
    /\ ens' = [ens EXCEPT ![t].count = catalog.graphs + ens[t].graph,
                          ![t].pc = IF catalog.graphs + ens[t].graph = 0
                                    THEN "create_graph" ELSE "create_table"]
    /\ UNCHANGED <<catalog, _graph_ensured, call, runVars>>

\* cypher.py:27-28  SELECT create_graph(name): raises when the graph exists
create_graph(cat, e) ==
    IF cat.graphs > 0
    THEN [e EXCEPT !.pc = "raised", !.graph = 0, !.table = 0]
    ELSE [e EXCEPT !.graph = 1, !.pc = "create_table"]

CreateGraph(t) ==
    /\ ens[t].pc = "create_graph"
    /\ ~OtherHoldsGraph(t)
    /\ ens' = [ens EXCEPT ![t] = create_graph(catalog, ens[t])]
    /\ UNCHANGED <<catalog, _graph_ensured, call, runVars>>

\* cypher.py:30-42  CREATE TABLE IF NOT EXISTS ast_edge_guard
CreateTable(t) ==
    /\ ens[t].pc = "create_table"
    /\ ~OtherHoldsTable(t)
    /\ ens' = [ens EXCEPT ![t].table = IF catalog.tables + ens[t].table > 0
                                       THEN ens[t].table ELSE 1,
                          ![t].pc = "commit"]
    /\ UNCHANGED <<catalog, _graph_ensured, call, runVars>>

\* cypher.py:13  the end of async with engine.begin(): commit; ensure_graph
\* returns and postgres.py:197 sets the flag when the caller is an ingest
EnsureCommit(t) ==
    /\ ens[t].pc = "commit"
    /\ catalog' = [graphs |-> catalog.graphs + ens[t].graph,
                   tables |-> catalog.tables + ens[t].table]
    /\ ens' = [ens EXCEPT ![t].graph = 0, ![t].table = 0, ![t].pc = "returned"]
    /\ _graph_ensured' = IF ens[t].via = "ingest" THEN TRUE ELSE _graph_ensured
    /\ UNCHANGED <<call, runVars>>

\* the caller of ensure_ready or of the ingest has its result or its exception
EnsureReturn(t) ==
    /\ ens[t].pc \in {"returned", "raised"}
    /\ ens' = [ens EXCEPT ![t] = IdleEnsure]
    /\ UNCHANGED <<catalog, _graph_ensured, call, runVars>>

EnsureInit ==
    /\ backend = "pg"
    /\ head = 0
    /\ files = {}
    /\ db = EmptyDb
    /\ tx = [t \in Tasks |-> EmptyBuf]
    /\ mem = EmptyMem
    /\ pc = [t \in Tasks |-> "idle"]
    /\ job = [t \in Tasks |-> IdleJob]
    /\ started = 0
    /\ failures = 0
    /\ call = NoCall
    /\ temp = {}
    /\ catalog = EmptyCatalog
    /\ ens = [t \in Tasks |-> IdleEnsure]
    /\ _graph_ensured = FALSE

EnsureNext ==
    \E t \in Tasks :
        \/ EnsureReady(t)
        \/ IngestEnsure(t)
        \/ CreateExtension(t)
        \/ SelectCount(t)
        \/ CreateGraph(t)
        \/ CreateTable(t)
        \/ EnsureCommit(t)
        \/ EnsureReturn(t)

EnsureSpec == EnsureInit /\ [][EnsureNext]_vars

\* C29: concurrent first calls of ensure_ready, or of ingests that read the
\* flag as false and see the graph absent, all complete without error and
\* leave exactly one graph and one ast_edge_guard table, and a repeated call
\* after that changes nothing: no call ever raises, and once a call has
\* returned the catalog holds one graph and one table
EnsureConcurrentCallsSucceed ==
    /\ \A t \in Tasks : ens[t].pc # "raised"
    /\ \A t \in Tasks : ens[t].pc = "returned" =>
                            catalog = ReadyCatalog

\* the guard row stored for the (parent_id, child_id) pair of triple r
SameEdge(rows, r) == {g \in rows : g.parent_id = r[1] /\ g.child_id = r[2]}

\* the guard rows that hold the (parent_id, child_index) slot of triple r
SameSlot(rows, r) == {g \in rows : g.parent_id = r[1] /\ g.child_index = r[3]}

\* triple k brings a new child to a slot that is taken: its pair is neither
\* stored nor inserted by an earlier row of the statement
SlotClash(rows, triples, k) ==
    /\ SameEdge(rows, triples[k]) = {}
    /\ SameSlot(rows, triples[k]) # {}
    /\ \A i \in 1..(k - 1) : ~(triples[i][1] = triples[k][1] /\
                               triples[i][2] = triples[k][2])

\* C30: a guard insert whose (parent_id, child_id) exists is ignored without
\* error and leaves the stored child_index unchanged; one that brings a new
\* child_id to an existing (parent_id, child_index) raises, the ingest is
\* aborted and its transaction rolled back
GuardConflictHandling ==
    [][\A t \in Tasks :
          (pc[t] = "guard" /\ pc'[t] # "guard") =>
              LET before == VisGuard(db, tx[t])
                  after == VisGuard(db', tx'[t])
                  triples == AgeEdgeTriples(job[t])
              IN  /\ (\E k \in 1..Len(triples) : SlotClash(before, triples, k)) =>
                         /\ pc'[t] = "failed"
                         /\ job'[t].exc = "IntegrityError"
                         /\ tx'[t] = EmptyBuf
                         /\ db' = db
                  /\ (\A k \in 1..Len(triples) : SameEdge(before, triples[k]) # {}) =>
                         /\ pc'[t] = "edges"
                         /\ after = before
                  /\ pc'[t] = "edges" =>
                         \A g \in before : SameEdge(after, <<g.parent_id, g.child_id>>) = {g}
      ]_vars

\* an ingest failed at the guard insert and was rolled back; its statement
\* also held a row whose pair is stored with another child_index
GuardConflictWitness ==
    \E t \in Tasks :
        /\ pc[t] = "failed"
        /\ job[t].exc = "IntegrityError"
        /\ tx[t] = EmptyBuf
        /\ \E k \in 1..Len(AgeEdgeTriples(job[t])) :
              SlotClash(db.guard, AgeEdgeTriples(job[t]), k)
        /\ \E k \in 1..Len(AgeEdgeTriples(job[t])) :
              \E g \in SameEdge(db.guard, AgeEdgeTriples(job[t])[k]) :
                  g.child_index # AgeEdgeTriples(job[t])[k][3]

(***************************************************************************)
(* _collect_ast_data called on a tree (postgres.py:30-83).  The trees are  *)
(* all ordered trees of at most MaxTreeNodes nodes whose nodes carry one   *)
(* of two (type, start_byte, end_byte) labels.                             *)
(***************************************************************************)
MaxTreeNodes == 5      \* nodes of a tree handed to the collector

TreeLabels == {<<"module", 0, 2>>, <<"integer", 1, 2>>}

RECURSIVE TreesOf(_)
RECURSIVE Forests(_)

\* the child lists that hold m nodes in all
Forests(m) ==
    IF m = 0 THEN {<<>>}
    ELSE UNION {{<<t>> \o f : t \in TreesOf(k), f \in Forests(m - k)} : k \in 1..m}

\* the AstNode trees of exactly n nodes
TreesOf(n) ==
    {Inner(l[1], l[2], l[3], kids) : l \in TreeLabels, kids \in Forests(n - 1)}

CollectTrees == UNION {TreesOf(n) : n \in 1..MaxTreeNodes}

CollectSource == <<Sym("1"), Sym("1")>>

\* postgres.py:213  node_props, edge_tuples, occurrence_tuples =
\*                  _collect_ast_data(fa.ast, fa.file_uuid, source_bytes)
Collect ==
    /\ call = NoCall
    /\ \E node \in CollectTrees :
          call' = [op |-> "collect", node |-> node,
                   out |-> _collect_ast_data(node, 1, CollectSource)]
    /\ UNCHANGED ingestVars

\* the caller has the three lists
CollectReturn ==
    /\ call.op = "collect"
    /\ call' = NoCall
    /\ UNCHANGED ingestVars

CollectNext == Collect \/ CollectReturn

CollectSpec == Rest /\ [][CollectNext]_vars

\* the number of nodes of a tree
RECURSIVE TreeSize(_)
RECURSIVE ForestSize(_)
ForestSize(kids) ==
    IF Len(kids) = 0 THEN 0 ELSE TreeSize(Head(kids)) + ForestSize(Tail(kids))

TreeSize(n) == 1 + ForestSize(n.children)

\* the nodes of a tree, every child's subtree before its parent
RECURSIVE PostOrder(_)
RECURSIVE PostOrderAll(_)
PostOrderAll(kids) ==
    IF Len(kids) = 0 THEN <<>> ELSE PostOrder(Head(kids)) \o PostOrderAll(Tail(kids))

PostOrder(n) == Append(PostOrderAll(n.children), n)

\* the edges of one parent, in the order of the list
EdgesOf(edges, p) == SelectSeq(edges, LAMBDA e : e[1] = p)

\* the 0-based position of child o (0-based) of the parent at position p:
\* the last child sits right before its parent, every other child right
\* before the subtree of the next one
RECURSIVE ChildPos(_, _, _)
ChildPos(parent, p, o) ==
    IF o = Len(parent.children) - 1 THEN p - 1
    ELSE ChildPos(parent, p, o + 1) - TreeSize(parent.children[o + 2])

\* C31: _collect_ast_data returns its lists in post-order: one entry of
\* nodes per tree node, every child's index below its parent's, N edges
\* (parent_index, child_index, child_order) per parent of N children with
\* child_order 0..N-1 in the original child order, occurrences[k] =
\* (k, start_byte, end_byte) of nodes[k], and every index in edges and in
\* occurrences a position of nodes
CollectPostOrder ==
    call.op = "collect" =>
        LET nodes == call.out.nodes
            edges == call.out.edges
            occurrences == call.out.occurrences
            po == PostOrder(call.node)
        IN  /\ Len(nodes) = TreeSize(call.node)
            /\ \A k \in 1..Len(nodes) :
                  /\ nodes[k].type = po[k].type
                  /\ nodes[k].start_byte = po[k].start_byte
                  /\ nodes[k].end_byte = po[k].end_byte
            /\ \A j \in 1..Len(edges) :
                  /\ edges[j][1] \in 0..(Len(nodes) - 1)
                  /\ edges[j][2] \in 0..(Len(nodes) - 1)
                  /\ edges[j][2] < edges[j][1]
            /\ \A k \in 1..Len(nodes) :
                  LET mine == EdgesOf(edges, k - 1)
                  IN  /\ Len(mine) = Len(po[k].children)
                      /\ \A o \in 1..Len(mine) :
                            /\ mine[o][3] = o - 1
                            /\ mine[o][2] = ChildPos(po[k], k - 1, o - 1)
                            /\ po[mine[o][2] + 1] = po[k].children[o]
            /\ Len(occurrences) = Len(nodes)
            /\ \A k \in 1..Len(occurrences) :
                  occurrences[k] = <<k - 1, nodes[k].start_byte, nodes[k].end_byte>>

\* a parent with two children, the first of them a parent itself, collected
CollectPostOrderWitness ==
    /\ call.op = "collect"
    /\ Len(call.node.children) = 2
    /\ Len(call.node.children[1].children) = 1
    /\ Len(call.out.nodes) = 4
    /\ Len(call.out.edges) = 3
    /\ call.node.children[1].type # call.node.children[2].type

\* the storage operations of one Postgres ingest in the order the claim
\* gives them; persist_file is a SELECT and, for a new file, an INSERT
IngestOrder ==
    <<"persist_file", "pf_insert", "fv_merge", "link_prev", "lookup", "create",
      "guard", "edges", "occurs", "commit", "done">>

\* the operations an ingest leaves out: the INSERT of a stored file and the
\* link of a file that has no previous commit
Optional == {"pf_insert", "link_prev"}

NodeIdsSeen(t) == {n.id : n \in VisNodes(db, tx[t])}

\* C32: within one ingest the backend operations occur in the order
\* persist_file, then in one transaction FileVersion merge, NEXT_VERSION
\* link, span lookup, vertex creation, guard insert, PARENT_OF merge and
\* OCCURS_IN merge; no PARENT_OF or OCCURS_IN edge is upserted before both
\* of its endpoint vertices exist
IngestOperationOrder ==
    [][\A t \in Tasks :
          (backend = "pg" /\ pc'[t] # pc[t] /\ pc[t] \notin {"idle", "done", "failed", "raised"}) =>
              LET from == IndexOf(IngestOrder, pc[t], 1)
                  to == IndexOf(IngestOrder, pc'[t], 1)
              IN  /\ pc'[t] = "failed" \/
                        /\ from < to /\ to <= Len(IngestOrder)
                        /\ \A i \in (from + 1)..(to - 1) : IngestOrder[i] \in Optional
                  /\ pc[t] \in {"persist_file", "pf_insert"} => tx[t] = EmptyBuf
                  /\ (pc[t] \in TxSteps \ {"commit"} /\ pc'[t] # "failed") => db' = db
                  /\ pc[t] = "edges" =>
                        \A k \in 1..Len(AgeEdgeTriples(job[t])) :
                            /\ AgeEdgeTriples(job[t])[k][1] \in NodeIdsSeen(t)
                            /\ AgeEdgeTriples(job[t])[k][2] \in NodeIdsSeen(t)
                  /\ pc[t] = "occurs" =>
                        /\ job[t].file_version_id \in {f.id : f \in VisFvs(db, tx[t])}
                        /\ \A k \in 1..Len(AgeOccurs(job[t])) :
                              AgeOccurs(job[t])[k][1] \in NodeIdsSeen(t)
      ]_vars

\* an ingest that ran every operation, the link included, and committed
IngestOperationOrderWitness ==
    \E t \in Tasks :
        /\ backend = "pg"
        /\ pc[t] = "done"
        /\ \E e \in db.nvedges : e.cur = job[t].file_version_id
        /\ \E e \in db.pedges : e.id >= job[t].seq * IdBlock
        /\ \E e \in db.oedges : e.file_version_id = job[t].file_version_id

(***************************************************************************)
(* The five bulk operations of an ingest (postgres.py:86-187) given inputs *)
(* longer than one batch.  An input of n items is the list 1..n: item i    *)
(* stands for the i-th span key, property dict, triple or occurrence.      *)
(***************************************************************************)
MaxBatchInput == 401   \* items handed to one bulk operation

\* the first vertex id the database hands out in a call
FirstCreatedId == 1000

\* postgres.py:116-119  one UNWIND ... CREATE (n:AstNode) statement: a vertex
\* and a row id(n) per item of the chunk, in the order of the chunk
CreateChunk(chunk, nid) ==
    [vertices |-> {<<nid + i - 1, chunk[i]>> : i \in 1..Len(chunk)},
     rows |-> [i \in 1..Len(chunk) |-> nid + i - 1]]

\* postgres.py:113-120  ids.extend(...) chunk after chunk
RECURSIVE ExtendIds(_, _, _)
ExtendIds(chunks, nid, acc) ==
    IF Len(chunks) = 0 THEN acc
    ELSE LET r == CreateChunk(Head(chunks), nid)
         IN  ExtendIds(Tail(chunks), nid + Len(Head(chunks)),
                       [vertices |-> acc.vertices \cup r.vertices,
                        ids |-> acc.ids \o r.rows])

\* the loop `for i in range(0, len(list), _BATCH_SIZE)` of a bulk operation
\* called with conn=conn: one statement per chunk, each on _use_conn(conn)
Bulk(name, n) ==
    LET input == [i \in 1..n |-> i]
        chunks == Chunks(input, BATCH_SIZE)
    IN  [op |-> "bulk", name |-> name, input |-> input, chunks |-> chunks,
         conns |-> [k \in 1..Len(chunks) |-> _use_conn("tx")],
         created |-> IF name = "create"
                     THEN ExtendIds(chunks, FirstCreatedId, [vertices |-> {}, ids |-> <<>>])
                     ELSE [vertices |-> {}, ids |-> <<>>]]

\* postgres.py:86-102  _batch_lookup_spans
BulkLookup ==
    /\ call = NoCall
    /\ \E n \in 0..MaxBatchInput : call' = Bulk("lookup", n)
    /\ UNCHANGED ingestVars

\* postgres.py:105-120  _batch_create_nodes
BulkCreate ==
    /\ call = NoCall
    /\ \E n \in 0..MaxBatchInput : call' = Bulk("create", n)
    /\ UNCHANGED ingestVars

\* postgres.py:123-139  _batch_edge_guard
BulkGuard ==
    /\ call = NoCall
    /\ \E n \in 0..MaxBatchInput : call' = Bulk("guard", n)
    /\ UNCHANGED ingestVars

\* postgres.py:142-160  _batch_parent_edges
BulkParent ==
    /\ call = NoCall
    /\ \E n \in 0..MaxBatchInput : call' = Bulk("edges", n)
    /\ UNCHANGED ingestVars

\* postgres.py:163-187  _batch_occurs_edges
BulkOccurs ==
    /\ call = NoCall
    /\ \E n \in 0..MaxBatchInput : call' = Bulk("occurs", n)
    /\ UNCHANGED ingestVars

\* the bulk operation returns
BulkReturn ==
    /\ call.op = "bulk"
    /\ call' = NoCall
    /\ UNCHANGED ingestVars

BulkNext ==
    BulkLookup \/ BulkCreate \/ BulkGuard \/ BulkParent \/ BulkOccurs \/ BulkReturn

BulkSpec == Rest /\ [][BulkNext]_vars

\* C33: every bulk operation of an ingest splits its input into consecutive
\* chunks of at most 200 items whose concatenation is the input in its
\* order, issues no statement for an empty input and runs every chunk on
\* the one transaction connection; the created vertex ids go to the new
\* nodes in input order
BulkChunking ==
    call.op = "bulk" =>
        /\ \A k \in 1..Len(call.chunks) :
              /\ Len(call.chunks[k]) >= 1
              /\ Len(call.chunks[k]) <= 200
              /\ call.conns[k] = "tx"
        /\ Flat(call.chunks) = call.input
        /\ Len(call.input) = 0 => Len(call.chunks) = 0
        /\ call.name = "create" =>
              /\ Len(call.created.ids) = Len(call.input)
              /\ \A i \in 1..Len(call.input) :
                    <<call.created.ids[i], call.input[i]>> \in call.created.vertices

\* a vertex creation of three chunks, the last one of a single item
BulkChunkingWitness ==
    /\ call.op = "bulk"
    /\ call.name = "create"
    /\ Len(call.chunks) = 3
    /\ Len(call.chunks[1]) = 200
    /\ Len(call.chunks[3]) = 1
    /\ call.created.ids[401] = FirstCreatedId + 400

(***************************************************************************)
(* Repeated ingests, into either backend, of files whose trees repeat a    *)
(* span key or a shape: a node inside a node of the same type and byte     *)
(* range, equal sibling leaves, a node with the span of one earlier node   *)
(* and the shape of another.                                               *)
(***************************************************************************)
MaxNestRuns == 2       \* run_ingest calls started in a run with nested trees

NestContents == {"s", "n", "p"}

NestNext ==
    \/ \E path \in Paths, content \in NestContents :
          Start(1, path, content, MaxNestRuns)
    \/ PFSelect(1)
    \/ PFInsert(1)
    \/ FVMerge(1)
    \/ LinkPrev(1)
    \/ SpanLookup(1)
    \/ CreateNodes(1)
    \/ GuardInsert(1)
    \/ ParentEdges(1)
    \/ OccursEdges(1)
    \/ Commit(1)
    \/ MemPersistFile(1)
    \/ MemPersistFileAst(1)
    \/ Finish(1)

NestSpec == Init /\ [][NestNext]_vars

\* the vertices reached from the set S along the edges E
RECURSIVE Closure(_, _)
Closure(E, S) ==
    LET T == S \cup {e[2] : e \in {x \in E : x[1] \in S}}
    IN  IF T = S THEN S ELSE Closure(E, T)

\* no vertex is its own parent or ancestor
Acyclic(E) == \A e \in E : e[1] \notin Closure(E, {e[2]})

\* C34: after any sequence of ingests the PARENT_OF edges form a directed
\* acyclic graph, in the Postgres pipeline and in the in-memory backend,
\* whatever tree the collector was given
ParentEdgesAcyclic ==
    /\ Acyclic({<<e.parent_id, e.child_id>> : e \in db.pedges})
    /\ Acyclic({<<e[1], e[2]>> : e \in mem.parent_edges})

\* the vertex ids the in-memory ingest of job j resolved its tree nodes to,
\* in post-order: the node ids of the occurrences it appended to m
ResolvedIds(m, j) ==
    LET n == Len(Collected(j).nodes)
        first == Len(m.occurrences) - n
    IN  [k \in 1..n |-> m.occurrences[first + k].node_id]

\* the vertices an ingest created before it resolved its k-th node: a new
\* vertex is created by the first node that resolves to it
CreatedBefore(m, m2, ids, k) ==
    {w \in m2.ast_nodes \ m.ast_nodes :
        \E i \in 1..(k - 1) : ids[i] = w.node_id}

\* the span index and the shape index as the k-th node finds them
SpanIndexAt(m, m2, ids, k) ==
    m.ast_nodes_by_span \cup
        {<<w.span_key, w.node_id>> : w \in CreatedBefore(m, m2, ids, k)}

ShapeIndexAt(m, m2, ids, k) ==
    m.ast_nodes_by_shape \cup
        {<<w.shape_hash, w.node_id>> : w \in CreatedBefore(m, m2, ids, k)}

GuardMirrorsGraph ==
    \A t \in Tasks :
        (backend = "pg" /\ pc[t] = "done") =>
            /\ {<<e.parent_id, e.child_id>> : e \in db.pedges} =
                   {<<g.parent_id, g.child_id>> : g \in db.guard}
            /\ \A e \in db.pedges : \A g \in db.guard :
                  (g.parent_id = e.parent_id /\ g.child_id = e.child_id) =>
                      e.child_index = g.child_index

\* ---------------------------------------------------------------------
\* WatchfilesWatcher (watcher/watchfiles_adapter.py).  The watcher and
\* the asyncio tasks it creates live in `call`:
\*   _task    the field self._task: None or the number of a task
\*   tasks    every task made by asyncio.create_task(self._watch()):
\*            where its coroutine stands, whether a cancel() is pending,
\*            and which entry of calls its on_change call is
\*   ctl      per calling coroutine: the task its stop() awaits, or None
\*   batches  every set of changes an awatch iterator handed to a loop
\*   calls    every invocation of on_change: the task, the batch, the
\*            argument and how the call ended
\* ---------------------------------------------------------------------
MaxWatchTasks == 2
MaxBatches == 2

Callers == {1, 2}

\* file names as characters, so that Path.suffix is computed
WatchPy       == <<"/", "t", "/", "a", ".", "p", "y">>
WatchUpper    == <<"/", "t", "/", "b", ".", "P", "Y">>
WatchTxt      == <<"/", "t", "/", "c", ".", "t">>
WatchDotfile  == <<"/", "t", "/", ".", "p", "y">>
WatchDottedDir == <<"/", "t", ".", "p", "y", "/", "M">>

\* the batches awatch yields, as sets of (Change, path) pairs: 1 added,
\* 2 modified; a batch is never empty
WatchBatches ==
    {{<<1, WatchPy>>, <<2, WatchPy>>},
     {<<1, WatchPy>>, <<2, WatchTxt>>},
     {<<1, WatchUpper>>, <<1, WatchDotfile>>},
     {<<2, WatchDottedDir>>}}

RECURSIVE LastIndex(_, _, _)
\* str.rfind: the last position of character c in s[1..i], 0 if none
LastIndex(s, c, i) ==
    IF i = 0 THEN 0 ELSE IF s[i] = c THEN i ELSE LastIndex(s, c, i - 1)

\* Path(p).name: the part after the last separator
PathName(p) == SubSeq(p, LastIndex(p, "/", Len(p)) + 1, Len(p))

\* Path(p).suffix: from the last dot of the name, unless the dot starts
\* or ends the name
PathSuffix(p) ==
    LET name == PathName(p)
        i    == LastIndex(name, ".", Len(name))
    IN  IF 1 < i /\ i < Len(name) THEN SubSeq(name, i, Len(name)) ELSE <<>>

\* the characters of the extensions of the model
ExtensionChars(ext) == IF ext = ".py" THEN <<".", "p", "y">> ELSE <<>>

\* watchfiles_adapter.py:17
_SUPPORTED_EXTENSIONS == {ExtensionChars(kv[1]) : kv \in _EXTENSION_LANGUAGE_MAP}

\* watchfiles_adapter.py:20-21
_is_supported_file(path) == PathSuffix(path) \in _SUPPORTED_EXTENSIONS

WatchPathsUnfiltered(changes) == {c[2] : c \in changes}

\* watchfiles_adapter.py:56
WatchPaths(changes) == {c[2] : c \in {x \in changes : _is_supported_file(x[2])}}

HandlesNothing(raised) == FALSE

\* watchfiles_adapter.py:61  except Exception: asyncio.CancelledError is
\* a BaseException and passes through
Handles(raised) == raised = "Exception"

\* how an on_change call can end
OnChangeOutcomes == {"return", "Exception", "CancelledError"}

NewTask == [state |-> "waiting", must_cancel |-> FALSE, call_no |-> 0]

\* watchfiles_adapter.py:30-37  __init__
NewWatcher ==
    /\ call = NoCall
    /\ call' = [op |-> "watcher", _task |-> None, tasks |-> <<>>,
                ctl |-> [c \in Callers |-> None], batches |-> <<>>,
                calls |-> <<>>]
    /\ UNCHANGED ingestVars

\* watchfiles_adapter.py:39-43  start never suspends
start(c) ==
    /\ call.op = "watcher"
    /\ call.ctl[c] = None
    /\ IF call._task # None
       THEN UNCHANGED call
       ELSE /\ Len(call.tasks) < MaxWatchTasks
            /\ call' = [call EXCEPT !.tasks = Append(@, NewTask),
                                    !._task = Len(call.tasks) + 1]
    /\ UNCHANGED ingestVars

\* watchfiles_adapter.py:45-50  stop up to its await: Task.cancel() on a
\* finished task does nothing
stop(c) ==
    /\ call.op = "watcher"
    /\ call.ctl[c] = None
    /\ IF call._task = None
       THEN UNCHANGED call
       ELSE call' = [call EXCEPT
                !.tasks[call._task].must_cancel =
                    IF call.tasks[call._task].state = "done" THEN @ ELSE TRUE,
                !.ctl[c] = call._task]
    /\ UNCHANGED ingestVars

\* watchfiles_adapter.py:49-52  the awaited task has ended, stop resumes
StopResume(c) ==
    /\ call.op = "watcher"
    /\ call.ctl[c] # None
    /\ call.tasks[call.ctl[c]].state = "done"
    /\ call' = [call EXCEPT !._task = None, !.ctl[c] = None]
    /\ UNCHANGED ingestVars

\* watchfiles_adapter.py:55-60  one turn of the loop of _watch in task k:
\* awatch yields a batch, on_change is called when a path is left
_watch(k, changes) ==
    /\ call.op = "watcher"
    /\ k \in DOMAIN call.tasks
    /\ call.tasks[k].state = "waiting"
    /\ ~call.tasks[k].must_cancel
    /\ Len(call.batches) < MaxBatches
    /\ LET paths == WatchPaths(changes)
           b     == Len(call.batches) + 1
       IN  call' = [call EXCEPT
               !.batches = Append(@, [task |-> k, changes |-> changes]),
               !.calls = IF paths # {}
                         THEN Append(@, [task |-> k, batch |-> b, paths |-> paths,
                                         outcome |-> "running"])
                         ELSE @,
               !.tasks[k].state = IF paths # {} THEN "callback" ELSE "waiting",
               !.tasks[k].call_no = IF paths # {} THEN Len(call.calls) + 1 ELSE @]
    /\ UNCHANGED ingestVars

\* watchfiles_adapter.py:59-62  the on_change call of task k ends by
\* itself: it returns, or raises what the except clause handles, or
\* raises past it and ends the task
OnChangeEnds(k, outcome) ==
    /\ call.op = "watcher"
    /\ k \in DOMAIN call.tasks
    /\ call.tasks[k].state = "callback"
    /\ ~call.tasks[k].must_cancel
    /\ call' = [call EXCEPT
            !.calls[call.tasks[k].call_no].outcome = outcome,
            !.tasks[k].state = IF outcome = "return" \/ Handles(outcome)
                               THEN "waiting" ELSE "done"]
    /\ UNCHANGED ingestVars

\* the pending cancel() reaches task k at its await (line 55 or 60):
\* CancelledError leaves _watch
Cancelled(k) ==
    /\ call.op = "watcher"
    /\ k \in DOMAIN call.tasks
    /\ call.tasks[k].must_cancel
    /\ call.tasks[k].state # "done"
    /\ call' = [call EXCEPT
            !.tasks[k].state = "done",
            !.calls = IF call.tasks[k].state = "callback"
                      THEN [@ EXCEPT ![call.tasks[k].call_no].outcome = "cancelled"]
                      ELSE @]
    /\ UNCHANGED ingestVars

WatchNext ==
    \/ NewWatcher
    \/ \E c \in Callers : start(c)
    \/ \E c \in Callers : stop(c)
    \/ \E c \in Callers : StopResume(c)
    \/ \E k \in 1..MaxWatchTasks : \E changes \in WatchBatches : _watch(k, changes)
    \/ \E k \in 1..MaxWatchTasks : \E outcome \in OnChangeOutcomes : OnChangeEnds(k, outcome)
    \/ \E k \in 1..MaxWatchTasks : Cancelled(k)

WatchSpec == Rest /\ [][WatchNext]_vars

\* C37: the watcher holds at most one watch task at any time: every watch
\* task that has not ended is the one in _task, so that start while
\* started keeps it, and after stop has returned no task is left running
AtMostOneWatchTask ==
    call.op = "watcher" =>
        \A k \in DOMAIN call.tasks :
            call.tasks[k].state # "done" => call._task = k

\* C38: for each batch of file changes the watcher invokes on_change
\* exactly once, with exactly the changed paths whose suffix is a
\* supported extension, and does not invoke it when that set is empty
OnChangeOncePerBatch ==
    call.op = "watcher" =>
        \A b \in 1..Len(call.batches) :
            LET want == {c[2] : c \in {x \in call.batches[b].changes :
                                PathSuffix(x[2]) \in _SUPPORTED_EXTENSIONS}}
                made == {i \in 1..Len(call.calls) : call.calls[i].batch = b}
            IN  IF want = {}
                THEN made = {}
                ELSE /\ Cardinality(made) = 1
                     /\ \A i \in made :
                           /\ call.calls[i].paths = want
                           /\ call.calls[i].task = call.batches[b].task

\* a batch with a supported and an unsupported path was delivered with
\* the supported path alone, and a batch without supported paths was
\* passed over
OnChangeOncePerBatchWitness ==
    /\ call.op = "watcher"
    /\ \E b1, b2 \in 1..Len(call.batches) :
          /\ call.batches[b1].changes = {<<1, WatchPy>>, <<2, WatchTxt>>}
          /\ \E i \in 1..Len(call.calls) :
                call.calls[i].batch = b1 /\ call.calls[i].paths = {WatchPy}
          /\ call.batches[b2].changes = {<<1, WatchUpper>>, <<1, WatchDotfile>>}
          /\ \A i \in 1..Len(call.calls) : call.calls[i].batch # b2

\* the watch task of call i ended without a stop: by a CancelledError
\* that a later on_change call of the task raised
EndedByLaterCancelledError(i) ==
    \E j \in (i + 1)..Len(call.calls) :
        /\ call.calls[j].task = call.calls[i].task
        /\ call.calls[j].outcome = "CancelledError"

\* C39 as claimed: whatever on_change raises, the watch loop goes on
\* until stop is called
OnChangeRaiseKeepsLoop ==
    call.op = "watcher" =>
        \A i \in 1..Len(call.calls) :
            call.calls[i].outcome \in {"Exception", "CancelledError"} =>
                \/ call.tasks[call.calls[i].task].state # "done"
                \/ call.tasks[call.calls[i].task].must_cancel

\* C39: an exception of class Exception raised by on_change does not end
\* the watch loop: the task stays in the loop until stop is called or a
\* later on_change call raises CancelledError, and every later batch of
\* supported changes of the task is delivered; a CancelledError raised
\* by on_change itself ends the task
HandledExceptionKeepsLoop ==
    call.op = "watcher" =>
        \A i \in 1..Len(call.calls) :
            LET k == call.calls[i].task
            IN  /\ call.calls[i].outcome = "Exception" =>
                      /\ \/ call.tasks[k].state # "done"
                         \/ call.tasks[k].must_cancel
                         \/ EndedByLaterCancelledError(i)
                      /\ \A b \in (call.calls[i].batch + 1)..Len(call.batches) :
                            (call.batches[b].task = k
                                /\ WatchPaths(call.batches[b].changes) # {}) =>
                                \E j \in (i + 1)..Len(call.calls) :
                                    call.calls[j].batch = b
                /\ call.calls[i].outcome = "CancelledError" =>
                      call.tasks[k].state = "done"

\* on_change raised an Exception, stop has not been called, and the next
\* batch of the same task was delivered
HandledExceptionWitness ==
    /\ call.op = "watcher"
    /\ \E i, j \in 1..Len(call.calls) :
          /\ i < j
          /\ call.calls[i].outcome = "Exception"
          /\ call.calls[j].task = call.calls[i].task
          /\ call.calls[j].outcome = "running"
          /\ ~call.tasks[call.calls[i].task].must_cancel

====
